---- MODULE Spec2Model ----
(***************************************************************************)
(* A model of slick::SlickQueue<T> (src/include/slick/queue.h): the        *)
(* lock-free multi-producer multi-consumer ring buffer.  Every action is   *)
(* one access to shared memory (an atomic load, store, fetch_add or        *)
(* compare-exchange, or a plain access to a slot's size or to a data       *)
(* cell) together with the thread-local computation that follows it, so    *)
(* that every interleaving of the threads at the level of memory accesses  *)
(* is a behaviour of the model.                                            *)
(*                                                                         *)
(* Integers of the model are TLC's 32-bit integers: the sentinel           *)
(* kInvalidIndex is the largest of them (the code's is the largest         *)
(* uint64_t), and the 48-bit mask of make_reserved_info is the identity    *)
(* on every index the bounded model reaches.                               *)
(***************************************************************************)
EXTENDS Integers, Sequences, FiniteSets, TLC

VARIABLES
    size_,            \* capacity N of the queue (a power of two)
    reserved_,        \* the packed reservation word (index:48, size:16)
    control_,         \* slot -> [data_index, size]
    data_,            \* slot -> value of the data cell
    last_published_,  \* the last-published watermark
    loss_count_,      \* items skipped because of overwrite
    ppc,              \* producer -> position in reserve / write / publish
    pn,               \* producer -> n of the call in progress
    preserved,        \* producer -> local `reserved` (or `prev`) of reserve
    pindex,           \* producer -> local `index` of reserve, then of publish
    pwrapped,         \* producer -> local `buffer_wrapped`
    pcurrent,         \* producer -> local `current` of publish
    cpc,              \* consumer -> position in read
    read_index,       \* consumer -> its own cursor (uint64_t&)
    cindex,           \* consumer -> local `index` (the data_index it loaded)
    ccell,            \* consumer -> slot of local `current_slot`
    cdata,            \* consumer -> slot of local `data` (line 375)
    shared_cursor,    \* the std::atomic<uint64_t> cursor shared by stealers
    ccurrent,         \* stealer -> local `current_index`
    cnext,            \* stealer -> local `next_index`
    coverrun,         \* stealer -> local `overrun`
    calls,            \* number of reserve calls begun
    resv,             \* history: the reservations in the order of their CAS
    pubd,             \* history: the indices whose publish stored data_index
    got,              \* history: consumer -> the items its reads returned
    call,             \* history: consumer -> the cursor its current or last
                      \*   read call began with, the first data_index it
                      \*   loaded, its result, and what that cursor pointed at
                      \*   when the call began
    overrun,          \* history: cursor -> the reservation index once got
                      \*   more than size_ ahead of it
    ahead,            \* history: consumer -> the reservation index once got
                      \*   size_ or more ahead of its cursor
    lpc,              \* read_last caller -> position in read_last
    llast,            \* read_last caller -> local `last_index`
    lgot,             \* history: read_last caller -> what its last call
                      \*   returned
    perr,             \* producer -> the exception its last reserve threw
    ctor,             \* what the constructor of the queue did
    resets,           \* history: the number of reset calls so far
    init_state,       \* shared region: the init state of the header
    shm_size,         \* shared region: the capacity stored in the header
    header_magic,     \* shared region: the layout marker of the header
    element_size,     \* shared region: the sizeof(T) stored in the header
    opc,              \* opener -> position in allocate_shm_data
    osize,            \* opener -> its own size_
    oelement,         \* opener -> its own sizeof(T)
    own_,             \* opener -> its own_ flag
    ovalid,           \* opener -> its last_published_valid_
    owait             \* opener -> local `i` of wait_for_shared_memory_ready

vars == << size_, reserved_, control_, data_, last_published_, loss_count_,
           ppc, pn, preserved, pindex, pwrapped, pcurrent,
           cpc, read_index, cindex, ccell, cdata,
           shared_cursor, ccurrent, cnext, coverrun,
           calls, resv, pubd, got, call, overrun, ahead,
           lpc, llast, lgot, perr, ctor, resets,
           init_state, shm_size, header_magic, element_size,
           opc, osize, oelement, own_, ovalid, owait >>

qvars == << size_, reserved_, control_, data_, last_published_ >>
pvars == << ppc, pn, preserved, pindex, pwrapped, pcurrent >>
cvars == << cpc, read_index, cindex, ccell, cdata, ccurrent, cnext, coverrun >>

\* The outcome of the calls that throw, and the count of the reset calls.
evars == << perr, ctor, resets >>

\* The shared region's header and the locals of allocate_shm_data.
svars == << init_state, shm_size, header_magic, element_size,
           opc, osize, oelement, own_, ovalid, owait >>

\* The header of the shared region.
hvars == << init_state, shm_size, header_magic, element_size >>

\* The variables of the operations that neither produce nor consume.
ovars == << lpc, llast, lgot, evars, svars >>

\* ------------------------------------------------------------------ bounds

\* The number of reserve calls of one behaviour.
MaxResv == 3

\* ------------------------------------------------------------------ threads

Producers == {"p1", "p2"}
Consumers == {"c1", "c2"}      \* each with its own cursor
Stealers  == {"s1", "s2"}      \* sharing one atomic cursor
Readers   == Consumers \cup Stealers
LastReaders == {"l1"}          \* callers of read_last
Creators  == {"o1", "o2", "o3"} \* SlickQueue(size, shm_name): create or open
Attachers == {"a1"}            \* SlickQueue(shm_name): open only
Openers   == Creators \cup Attachers

\* --------------------------------------------------------------- constants

kInvalidIndex == 2147483647

INIT_STATE_UNINITIALIZED == 0
INIT_STATE_LEGACY == 1
INIT_STATE_INITIALIZING == 2
INIT_STATE_READY == 3

\* HEADER_MAGIC, 0x534C5131 ('SLQ1')
HEADER_MAGIC == 1397510449

SizeField == 65536

\* a & b of two unsigned integers.
RECURSIVE BitAnd(_, _)
BitAnd(a, b) ==
    IF a = 0 \/ b = 0
    THEN 0
    ELSE (a % 2) * (b % 2) + 2 * BitAnd(a \div 2, b \div 2)

\* An is_power_of_two that lacks `value != 0`.
is_power_of_two_or_zero(value) == BitAnd(value, value - 1) = 0

\* is_power_of_two: `value != 0 && (value & (value - 1)) == 0`, lines 137-139.
is_power_of_two(value) == value /= 0 /\ BitAnd(value, value - 1) = 0

mask_ == size_ - 1

Slots == 0 .. (size_ - 1)

\* index & mask_, for a mask of the form 2^k - 1
Masked(index) == index % size_

\* ------------------------------------------------------ reserved-info codec

make_reserved_info(index, size) == index * SizeField + (size % SizeField)

get_index(reserved) == reserved \div SizeField

get_size(reserved) == reserved % SizeField

\* -------------------------------------------------------------------- Init

NoCall == [start |-> 0, first |-> kInvalidIndex, res |-> "none",
           due |-> -1, mark |-> -1, loss |-> 0]

\* The cell contents of `new T[size_]`: not yet written by any producer.
Unwritten == -1

\* What a read_last caller holds before its first call returns.
NoLast == [res |-> "none", index |-> kInvalidIndex, cell |-> 0, len |-> 0,
           val |-> Unwritten, inside |-> TRUE]

\* No producer holds an argument or an index yet.
InitArguments ==
    /\ pn = [p \in Producers |-> 0]
    /\ pindex = [p \in Producers |-> 0]

\* Every thread outside any call, every cursor at 0, no history yet.
InitCallers ==
    /\ loss_count_ = 0
    /\ ppc = [p \in Producers |-> "idle"]
    /\ preserved = [p \in Producers |-> 0]
    /\ pwrapped = [p \in Producers |-> FALSE]
    /\ pcurrent = [p \in Producers |-> 0]
    /\ cpc = [c \in Readers |-> "idle"]
    /\ read_index = [c \in Consumers |-> 0]
    /\ cindex = [c \in Readers |-> 0]
    /\ ccell = [c \in Readers |-> 0]
    /\ cdata = [c \in Consumers |-> 0]
    /\ shared_cursor = 0
    /\ ccurrent = [c \in Stealers |-> 0]
    /\ cnext = [c \in Stealers |-> 0]
    /\ coverrun = [c \in Stealers |-> 0]
    /\ calls = 0
    /\ resv = << >>
    /\ pubd = {}
    /\ got = [c \in Readers |-> << >>]
    /\ call = [c \in Consumers |-> NoCall]
    /\ overrun = [c \in Consumers \cup {"shared"} |-> FALSE]
    /\ ahead = [c \in Consumers |-> FALSE]
    /\ lpc = [l \in LastReaders |-> "idle"]
    /\ llast = [l \in LastReaders |-> 0]
    /\ lgot = [l \in LastReaders |-> NoLast]
    /\ perr = [p \in Producers |-> "none"]
    /\ resets = 0
    /\ opc = [o \in Openers |-> "idle"]
    /\ osize = [o \in Openers |-> 0]
    /\ oelement = [o \in Openers |-> 0]
    /\ own_ = [o \in Openers |-> FALSE]
    /\ ovalid = [o \in Openers |-> FALSE]
    /\ owait = [o \in Openers |-> 0]

InitThreads == InitArguments /\ InitCallers

\* A header of which every byte is 0: no shared region, or one just created.
ZeroHeader ==
    /\ init_state = INIT_STATE_UNINITIALIZED
    /\ shm_size = 0
    /\ header_magic = 0
    /\ element_size = 0

\* SlickQueue(uint32_t size): the private queue after construction, with every
\* thread outside any call and every cursor at 0.
InitQueue(N) ==
    /\ is_power_of_two(N)
    /\ size_ = N
    /\ reserved_ = 0
    /\ control_ = [s \in 0 .. (N - 1) |-> [data_index |-> kInvalidIndex, size |-> 1]]
    /\ data_ = [s \in 0 .. (N - 1) |-> Unwritten]
    /\ last_published_ = kInvalidIndex
    /\ ctor = "ok"
    /\ ZeroHeader
    /\ InitThreads

\* History only.  The position of a cursor: the index of the oldest item its
\* consumers still need, which is the cursor itself, or the index of an item a
\* read call has moved the cursor past and not yet returned to its caller.
Position(c) ==
    IF c = "shared"
    THEN LET held == {cindex[s] : s \in {t \in Stealers : cpc[t] = "a_ret"}}
         IN  IF held = {} THEN shared_cursor
             ELSE CHOOSE h \in held : \A g \in held : h <= g
    ELSE IF cpc[c] = "size2" THEN cindex[c] ELSE read_index[c]

\* History only.  A reservation that takes the reservation index more than
\* size_ ahead of a position reuses the slot of the item at that position: from
\* then on the cursor's consumers may lose items (overwrite).  `ahead` records
\* the stricter event that the reservation index is size_ or more ahead of the
\* cursor itself.
TrackOverrun ==
    /\ overrun' = [c \in DOMAIN overrun |->
                     overrun[c] \/ get_index(reserved_') - Position(c)' > size_]
    /\ ahead' = [c \in DOMAIN ahead |->
                   ahead[c] \/ get_index(reserved_') - read_index'[c] >= size_]

\* ------------------------------------------------------------------ reserve

\* A wrap test that is off by one: a reservation that ends exactly at the end
\* of the buffer is moved to the next lap too.
StraddlesEarly(idx, n) == idx + n >= size_

\* A wrap test that is off by one the other way: a reservation that crosses
\* the end of the buffer by one slot is left where it is.
StraddlesLate(idx, n) == idx + n > size_ + 1

\* `(idx + n) > size_`: the reservation would straddle the end of the buffer.
Straddles(idx, n) == idx + n > size_

\* The index reserve(n) returns when it finds the reservation index `index`.
ReservedIndex(index, n) ==
    IF Straddles(Masked(index), n) THEN index + (size_ - Masked(index)) ELSE index

\* n == 1: fetch_add of 1 << 16 on the packed word, lines 259-262.
ReserveFetchAdd(p, max) ==
    /\ ppc[p] = "idle"
    /\ calls < max
    /\ LET prev == reserved_
           index == get_index(prev)
       IN  /\ reserved_' = reserved_ + SizeField
           /\ preserved' = [preserved EXCEPT ![p] = IF get_size(prev) /= 1 THEN prev ELSE 0]
           /\ pindex' = [pindex EXCEPT ![p] = index]
           /\ pn' = [pn EXCEPT ![p] = 1]
           /\ ppc' = [ppc EXCEPT ![p] = IF get_size(prev) /= 1 THEN "r_fix" ELSE "write"]
           /\ resv' = Append(resv, [k |-> index, r |-> index, n |-> 1])
    /\ calls' = calls + 1
    /\ UNCHANGED << size_, control_, data_, last_published_, loss_count_,
                    pwrapped, pcurrent, pubd, got, call >>
    /\ UNCHANGED << cvars, shared_cursor, ovars >>
    /\ TrackOverrun

\* A restore of size = 1 that stores the word without comparing it first.
ReserveFixSizeStore(p) ==
    /\ ppc[p] = "r_fix"
    /\ reserved_' = make_reserved_info(pindex[p] + 1, 1)
    /\ preserved' = [preserved EXCEPT ![p] = 0]
    /\ ppc' = [ppc EXCEPT ![p] = "write"]
    /\ UNCHANGED << size_, control_, data_, last_published_, loss_count_,
                    pn, pindex, pwrapped, pcurrent, calls, resv, pubd, got, call >>
    /\ UNCHANGED << cvars, shared_cursor, ovars >>
    /\ TrackOverrun

\* n == 1, prev_size != 1: the one compare_exchange_strong that restores
\* size = 1, lines 263-268.
ReserveFixSize(p) ==
    /\ ppc[p] = "r_fix"
    /\ LET index == pindex[p]
           expected == make_reserved_info(index + 1, get_size(preserved[p]))
       IN  reserved_' = IF reserved_ = expected
                        THEN make_reserved_info(index + 1, 1)
                        ELSE reserved_
    /\ preserved' = [preserved EXCEPT ![p] = 0]
    /\ ppc' = [ppc EXCEPT ![p] = "write"]
    /\ UNCHANGED << size_, control_, data_, last_published_, loss_count_,
                    pn, pindex, pwrapped, pcurrent, calls, resv, pubd, got, call >>
    /\ UNCHANGED << cvars, shared_cursor, ovars >>
    /\ TrackOverrun

\* n > 1: the load of the packed word before the loop, line 270.
ReserveLoad(p, n, max) ==
    /\ ppc[p] = "idle"
    /\ calls < max
    /\ n > 1 /\ n <= size_
    /\ preserved' = [preserved EXCEPT ![p] = reserved_]
    /\ pn' = [pn EXCEPT ![p] = n]
    /\ ppc' = [ppc EXCEPT ![p] = "r_cas"]
    /\ calls' = calls + 1
    /\ UNCHANGED << qvars, loss_count_, pindex, pwrapped, pcurrent,
                    resv, pubd, got, call, overrun,
                    ahead >>
    /\ UNCHANGED << cvars, shared_cursor, ovars >>

\* n > 1: one turn of the loop, lines 274-291.  A failed compare_exchange_weak
\* reloads `reserved`; a spurious failure reloads the same value and repeats
\* the same turn.
ReserveCas(p) ==
    /\ ppc[p] = "r_cas"
    /\ LET reserved == preserved[p]
           n == pn[p]
           found == get_index(reserved)
           index == ReservedIndex(found, n)
           buffer_wrapped == Straddles(Masked(found), n)
           next == make_reserved_info(index + n, n)
       IN  IF reserved_ = reserved
           THEN /\ reserved_' = next
                /\ pindex' = [pindex EXCEPT ![p] = index]
                /\ pwrapped' = [pwrapped EXCEPT ![p] = buffer_wrapped]
                /\ ppc' = [ppc EXCEPT ![p] = IF buffer_wrapped THEN "r_msize" ELSE "write"]
                /\ preserved' = [preserved EXCEPT ![p] = IF buffer_wrapped THEN reserved ELSE 0]
                /\ resv' = Append(resv, [k |-> get_index(reserved_), r |-> index, n |-> n])
           ELSE /\ preserved' = [preserved EXCEPT ![p] = reserved_]
                /\ UNCHANGED << reserved_, pindex, pwrapped, ppc, resv >>
    /\ UNCHANGED << size_, control_, data_, last_published_, loss_count_,
                    pn, pcurrent, calls, pubd, got, call >>
    /\ UNCHANGED << cvars, shared_cursor, ovars >>
    /\ TrackOverrun

\* A marker whose length is that of a single-slot item.
ReserveMarkSizeOne(p) ==
    /\ ppc[p] = "r_msize"
    /\ control_' = [control_ EXCEPT ![Masked(get_index(preserved[p]))].size = 1]
    /\ ppc' = [ppc EXCEPT ![p] = "r_midx"]
    /\ UNCHANGED << size_, reserved_, data_, last_published_, loss_count_,
                    pn, preserved, pindex, pwrapped, pcurrent,
                    calls, resv, pubd, got, call, overrun, ahead >>
    /\ UNCHANGED << cvars, shared_cursor, ovars >>

\* buffer_wrapped: `slot.size = n` on the abandoned slot, lines 295-296.
ReserveMarkSize(p) ==
    /\ ppc[p] = "r_msize"
    /\ control_' = [control_ EXCEPT ![Masked(get_index(preserved[p]))].size = pn[p]]
    /\ ppc' = [ppc EXCEPT ![p] = "r_midx"]
    /\ UNCHANGED << size_, reserved_, data_, last_published_, loss_count_,
                    pn, preserved, pindex, pwrapped, pcurrent,
                    calls, resv, pubd, got, call, overrun, ahead >>
    /\ UNCHANGED << cvars, shared_cursor, ovars >>

\* A marker that holds the index before the advance instead of the index the
\* reservation was moved to.
ReserveMarkIndexBefore(p) ==
    /\ ppc[p] = "r_midx"
    /\ control_' = [control_ EXCEPT ![Masked(get_index(preserved[p]))].data_index =
                                      get_index(preserved[p])]
    /\ preserved' = [preserved EXCEPT ![p] = 0]
    /\ pwrapped' = [pwrapped EXCEPT ![p] = FALSE]
    /\ ppc' = [ppc EXCEPT ![p] = "write"]
    /\ UNCHANGED << size_, reserved_, data_, last_published_, loss_count_,
                    pn, pindex, pcurrent, calls, resv, pubd, got, call, overrun,
                    ahead >>
    /\ UNCHANGED << cvars, shared_cursor, ovars >>

\* A wrapped reserve that leaves no marker in the abandoned slot.
ReserveMarkIndexNone(p) ==
    /\ ppc[p] = "r_midx"
    /\ preserved' = [preserved EXCEPT ![p] = 0]
    /\ pwrapped' = [pwrapped EXCEPT ![p] = FALSE]
    /\ ppc' = [ppc EXCEPT ![p] = "write"]
    /\ UNCHANGED << qvars, loss_count_, pn, pindex, pcurrent, calls, resv, pubd,
                    got, call, overrun, ahead >>
    /\ UNCHANGED << cvars, shared_cursor, ovars >>

\* A marker that holds the index after the reservation, `index + n`.
ReserveMarkIndexNext(p) ==
    /\ ppc[p] = "r_midx"
    /\ control_' = [control_ EXCEPT ![Masked(get_index(preserved[p]))].data_index =
                                      pindex[p] + pn[p]]
    /\ preserved' = [preserved EXCEPT ![p] = 0]
    /\ pwrapped' = [pwrapped EXCEPT ![p] = FALSE]
    /\ ppc' = [ppc EXCEPT ![p] = "write"]
    /\ UNCHANGED << size_, reserved_, data_, last_published_, loss_count_,
                    pn, pindex, pcurrent, calls, resv, pubd, got, call, overrun,
                    ahead >>
    /\ UNCHANGED << cvars, shared_cursor, ovars >>

\* buffer_wrapped: `slot.data_index.store(index)` on the abandoned slot, line 297.
ReserveMarkIndex(p) ==
    /\ ppc[p] = "r_midx"
    /\ control_' = [control_ EXCEPT ![Masked(get_index(preserved[p]))].data_index = pindex[p]]
    /\ preserved' = [preserved EXCEPT ![p] = 0]
    /\ pwrapped' = [pwrapped EXCEPT ![p] = FALSE]
    /\ ppc' = [ppc EXCEPT ![p] = "write"]
    /\ UNCHANGED << size_, reserved_, data_, last_published_, loss_count_,
                    pn, pindex, pcurrent, calls, resv, pubd, got, call, overrun,
                    ahead >>
    /\ UNCHANGED << cvars, shared_cursor, ovars >>

\* ---------------------------------------------------- operator[] and publish

\* The value a producer writes into the cell of sequence number `seq`.
ValueOf(seq) == seq

\* An operator[] that is off by one cell.
WriteCellsNextCell(p) ==
    /\ ppc[p] = "write"
    /\ data_' = [s \in Slots |->
                   IF s >= Masked(pindex[p] + 1) /\ s < Masked(pindex[p] + 1) + pn[p]
                   THEN ValueOf(pindex[p] + (s - Masked(pindex[p] + 1)))
                   ELSE data_[s]]
    /\ ppc' = [ppc EXCEPT ![p] = "p_size"]
    /\ UNCHANGED << size_, reserved_, control_, last_published_, loss_count_,
                    pn, preserved, pindex, pwrapped, pcurrent,
                    calls, resv, pubd, got, call, overrun, ahead >>
    /\ UNCHANGED << cvars, shared_cursor, ovars >>

\* The producer fills the n cells it reserved through operator[], as every
\* caller does between reserve and publish (tests.cpp lines 35-37, 81-83).
WriteCells(p) ==
    /\ ppc[p] = "write"
    /\ data_' = [s \in Slots |->
                   IF s >= Masked(pindex[p]) /\ s < Masked(pindex[p]) + pn[p]
                   THEN ValueOf(pindex[p] + (s - Masked(pindex[p])))
                   ELSE data_[s]]
    /\ ppc' = [ppc EXCEPT ![p] = "p_size"]
    /\ UNCHANGED << size_, reserved_, control_, last_published_, loss_count_,
                    pn, preserved, pindex, pwrapped, pcurrent,
                    calls, resv, pubd, got, call, overrun, ahead >>
    /\ UNCHANGED << cvars, shared_cursor, ovars >>

\* A publish that forgets its n and leaves the length 1 in the slot.
PublishSizeOne(p) ==
    /\ ppc[p] = "p_size"
    /\ control_' = [control_ EXCEPT ![Masked(pindex[p])].size = 1]
    /\ ppc' = [ppc EXCEPT ![p] = "p_idx"]
    /\ UNCHANGED << size_, reserved_, data_, last_published_, loss_count_,
                    pn, preserved, pindex, pwrapped, pcurrent,
                    calls, resv, pubd, got, call, overrun, ahead >>
    /\ UNCHANGED << cvars, shared_cursor, ovars >>

\* publish: `slot.size = n`, line 328.
PublishSize(p) ==
    /\ ppc[p] = "p_size"
    /\ control_' = [control_ EXCEPT ![Masked(pindex[p])].size = pn[p]]
    /\ ppc' = [ppc EXCEPT ![p] = "p_idx"]
    /\ UNCHANGED << size_, reserved_, data_, last_published_, loss_count_,
                    pn, preserved, pindex, pwrapped, pcurrent,
                    calls, resv, pubd, got, call, overrun, ahead >>
    /\ UNCHANGED << cvars, shared_cursor, ovars >>

\* A publish that stores the slot's offset instead of the index.
PublishIndexMasked(p) ==
    /\ ppc[p] = "p_idx"
    /\ control_' = [control_ EXCEPT ![Masked(pindex[p])].data_index = Masked(pindex[p])]
    /\ pubd' = pubd \cup {pindex[p]}
    /\ ppc' = [ppc EXCEPT ![p] = "p_load"]
    /\ UNCHANGED << size_, reserved_, data_, last_published_, loss_count_,
                    pn, preserved, pindex, pwrapped, pcurrent,
                    calls, resv, got, call, overrun, ahead >>
    /\ UNCHANGED << cvars, shared_cursor, ovars >>

\* publish: `slot.data_index.store(index, release)`, line 329.
PublishIndex(p) ==
    /\ ppc[p] = "p_idx"
    /\ control_' = [control_ EXCEPT ![Masked(pindex[p])].data_index = pindex[p]]
    /\ pubd' = pubd \cup {pindex[p]}
    /\ ppc' = [ppc EXCEPT ![p] = "p_load"]
    /\ UNCHANGED << size_, reserved_, data_, last_published_, loss_count_,
                    pn, preserved, pindex, pwrapped, pcurrent,
                    calls, resv, got, call, overrun,
                    ahead >>
    /\ UNCHANGED << cvars, shared_cursor, ovars >>

\* publish: `current = last_published_->load()`, line 332.
PublishLoad(p) ==
    /\ ppc[p] = "p_load"
    /\ pcurrent' = [pcurrent EXCEPT ![p] = last_published_]
    /\ ppc' = [ppc EXCEPT ![p] = "p_cas"]
    /\ UNCHANGED << qvars, loss_count_, pn, preserved, pindex, pwrapped,
                    calls, resv, pubd, got, call, overrun, ahead >>
    /\ UNCHANGED << cvars, shared_cursor, ovars >>

\* A loop condition that stores the index whatever the watermark is.
MustRaiseAlways(current, index) == TRUE

\* `current == kInvalidIndex || current < index`, line 333.
MustRaise(current, index) == current = kInvalidIndex \/ current < index

\* A watermark loop of one turn: the call returns when its exchange fails.
PublishCasOnce(p) ==
    /\ ppc[p] = "p_cas"
    /\ last_published_' = IF MustRaise(pcurrent[p], pindex[p]) /\ last_published_ = pcurrent[p]
                          THEN pindex[p] ELSE last_published_
    /\ pcurrent' = [pcurrent EXCEPT ![p] = 0]
    /\ pn' = [pn EXCEPT ![p] = 0]
    /\ pindex' = [pindex EXCEPT ![p] = 0]
    /\ ppc' = [ppc EXCEPT ![p] = "idle"]
    /\ UNCHANGED << size_, reserved_, control_, data_, loss_count_,
                    preserved, pwrapped, calls, resv, pubd, got, call, overrun,
                    ahead >>
    /\ UNCHANGED << cvars, shared_cursor, ovars >>

\* publish: one turn of the watermark loop, lines 333-336; then the call
\* returns and the producer is free to reserve again.
PublishCas(p) ==
    /\ ppc[p] = "p_cas"
    /\ IF MustRaise(pcurrent[p], pindex[p]) /\ last_published_ /= pcurrent[p]
       THEN /\ pcurrent' = [pcurrent EXCEPT ![p] = last_published_]
            /\ UNCHANGED << last_published_, ppc, pn, pindex >>
       ELSE /\ last_published_' = IF MustRaise(pcurrent[p], pindex[p])
                                  THEN pindex[p] ELSE last_published_
            /\ pcurrent' = [pcurrent EXCEPT ![p] = 0]
            /\ pn' = [pn EXCEPT ![p] = 0]
            /\ pindex' = [pindex EXCEPT ![p] = 0]
            /\ ppc' = [ppc EXCEPT ![p] = "idle"]
    /\ UNCHANGED << size_, reserved_, control_, data_, loss_count_,
                    preserved, pwrapped, calls, resv, pubd, got, call, overrun,
                    ahead >>
    /\ UNCHANGED << cvars, shared_cursor, ovars >>

\* One step of producer p: reserve(n) for an n of `lens`, fill the cells,
\* publish(index, n); at most `max` reserve calls are begun in all.
Produce(p, lens, max) ==
    \/ (1 \in lens /\ ReserveFetchAdd(p, max))
    \/ ReserveFixSize(p)
    \/ \E n \in lens : ReserveLoad(p, n, max)
    \/ ReserveCas(p)
    \/ ReserveMarkSize(p)
    \/ ReserveMarkIndex(p)
    \/ WriteCells(p)
    \/ PublishSize(p)
    \/ PublishIndex(p)
    \/ PublishLoad(p)
    \/ PublishCas(p)

\* --------------------------------------------------- read(uint64_t& cursor)

\* `index != max && get_index(reserved_->load()) < index`, line 352.
SeesReset(index, reserved) == index /= kInvalidIndex /\ get_index(reserved) < index

\* The loss test of a build without loss detection.
SeesLossDisabled(index, cursor, idx) == FALSE

\* `index != max && index > read_index && ((index & mask_) == idx)`, line 358.
SeesLoss(index, cursor, idx) ==
    index /= kInvalidIndex /\ index > cursor /\ Masked(index) = idx

\* A readiness test that is off by one and turns away the item at the cursor.
NotReadyOffByOne(index, cursor) == index = kInvalidIndex \/ index <= cursor

\* A readiness test that forgets the slots that still hold an older index.
NotReadySentinelOnly(index, cursor) == index = kInvalidIndex

\* `index == max || index < read_index`, line 363: data not ready yet.
NotReady(index, cursor) == index = kInvalidIndex \/ index < cursor

\* A wrap test that never recognises a marker.
SeesWrapNever(index, cursor, idx) == FALSE

\* A wrap test that lacks `(index & mask_) != idx`.
SeesWrapAnyLarger(index, cursor, idx) == index > cursor

\* `index > read_index && ((index & mask_) != idx)`, line 367: a wrap marker.
SeesWrap(index, cursor, idx) == index > cursor /\ Masked(index) /= idx

\* History only: the index of the first reservation at or beyond the cursor,
\* when that reservation is published already; -1 otherwise.
NextDue(cursor) ==
    LET later == {i \in DOMAIN resv : resv[i].r >= cursor}
    IN  IF later = {} THEN -1
        ELSE LET i == CHOOSE m \in later : \A o \in later : m <= o
             IN  IF resv[i].r \in pubd THEN resv[i].r ELSE -1

\* History only.  The index r of the reservation that wrapped from k, if its
\* reserve call has returned and r is not published yet; -1 if there is none.
ReturnedWrap(k) ==
    LET W == {i \in DOMAIN resv :
                /\ resv[i].k = k /\ resv[i].r /= k
                /\ resv[i].r \notin pubd
                /\ \A p \in Producers :
                      ~(ppc[p] \in {"r_msize", "r_midx"} /\ pindex[p] = resv[i].r)}
    IN  IF W = {} THEN -1 ELSE resv[CHOOSE i \in W : TRUE].r

\* The top of the loop, lines 349-351: the acquire load of the slot's
\* data_index.  From "idle" this begins a call.
ReadLoad(c) ==
    /\ cpc[c] \in {"idle", "loop"}
    /\ LET idx == Masked(read_index[c])
           index == control_[idx].data_index
       IN  /\ cindex' = [cindex EXCEPT ![c] = index]
           /\ ccell' = [ccell EXCEPT ![c] = idx]
           /\ call' = [call EXCEPT ![c] =
                         IF cpc[c] = "idle"
                         THEN [start |-> read_index[c], first |-> index, res |-> "run",
                               due |-> NextDue(read_index[c]),
                               loss |-> loss_count_,
                               mark |-> ReturnedWrap(read_index[c])]
                         ELSE @]
    /\ cpc' = [cpc EXCEPT ![c] = "chk"]
    /\ UNCHANGED << qvars, loss_count_, pvars, ovars, read_index, cdata, shared_cursor,
                    ccurrent, cnext, coverrun, calls, resv, pubd, got, overrun, ahead >>

\* Lines 352-372: the load of the reservation word (when the slot is not the
\* sentinel) and the decisions taken on it: reset, loss accounting, empty,
\* wrap skip, or break to the return with `data` bound (line 375).
ReadCheck(c) ==
    /\ cpc[c] = "chk"
    /\ LET index == cindex[c]
           idx == ccell[c]
           cursor == IF SeesReset(index, reserved_) THEN 0 ELSE read_index[c]
       IN  /\ loss_count_' = IF SeesLoss(index, cursor, idx)
                             THEN loss_count_ + (index - cursor)
                             ELSE loss_count_
           /\ IF NotReady(index, cursor)
              THEN /\ read_index' = [read_index EXCEPT ![c] = cursor]
                   /\ cpc' = [cpc EXCEPT ![c] = "idle"]
                   /\ call' = [call EXCEPT ![c].res = "empty"]
                   /\ cindex' = [cindex EXCEPT ![c] = 0]
                   /\ ccell' = [ccell EXCEPT ![c] = 0]
                   /\ UNCHANGED cdata
              ELSE IF SeesWrap(index, cursor, idx)
              THEN /\ read_index' = [read_index EXCEPT ![c] = index]
                   /\ cpc' = [cpc EXCEPT ![c] = "loop"]
                   /\ cindex' = [cindex EXCEPT ![c] = 0]
                   /\ ccell' = [ccell EXCEPT ![c] = 0]
                   /\ UNCHANGED << call, cdata >>
              ELSE /\ read_index' = [read_index EXCEPT ![c] = cursor]
                   /\ cpc' = [cpc EXCEPT ![c] = "size1"]
                   /\ cdata' = [cdata EXCEPT ![c] = Masked(cursor)]
                   /\ UNCHANGED << call, cindex, ccell >>
    /\ UNCHANGED << qvars, pvars, ovars, shared_cursor, ccurrent, cnext, coverrun,
                    calls, resv, pubd, got >>
    /\ TrackOverrun

\* A cursor advance that counts from the old cursor, not from the index found.
ReadAdvanceFromCursor(c) ==
    /\ cpc[c] = "size1"
    /\ read_index' = [read_index EXCEPT ![c] = @ + control_[ccell[c]].size]
    /\ cpc' = [cpc EXCEPT ![c] = "size2"]
    /\ UNCHANGED << qvars, loss_count_, pvars, ovars, cindex, ccell, cdata, shared_cursor,
                    ccurrent, cnext, coverrun, calls, resv, pubd, got, call >>
    /\ TrackOverrun

\* A cursor advance that forgets the length of the item.
ReadAdvanceNoSize(c) ==
    /\ cpc[c] = "size1"
    /\ read_index' = [read_index EXCEPT ![c] = cindex[c]]
    /\ cpc' = [cpc EXCEPT ![c] = "size2"]
    /\ UNCHANGED << qvars, loss_count_, pvars, ovars, cindex, ccell, cdata, shared_cursor,
                    ccurrent, cnext, coverrun, calls, resv, pubd, got, call >>
    /\ TrackOverrun

\* `read_index = index + current_slot->size`, line 376.
ReadAdvance(c) ==
    /\ cpc[c] = "size1"
    /\ read_index' = [read_index EXCEPT ![c] = cindex[c] + control_[ccell[c]].size]
    /\ cpc' = [cpc EXCEPT ![c] = "size2"]
    /\ UNCHANGED << qvars, loss_count_, pvars, ovars, cindex, ccell, cdata, shared_cursor,
                    ccurrent, cnext, coverrun, calls, resv, pubd, got, call >>
    /\ TrackOverrun

\* A return that binds the cell after the cursor has moved on.
ReadReturnAfterAdvance(c) ==
    /\ cpc[c] = "size2"
    /\ got' = [got EXCEPT ![c] = Append(@, [index |-> cindex[c],
                                            len |-> control_[ccell[c]].size,
                                            cell |-> Masked(read_index[c]),
                                            val |-> data_[Masked(read_index[c])]])]
    /\ call' = [call EXCEPT ![c].res = "item"]
    /\ cpc' = [cpc EXCEPT ![c] = "idle"]
    /\ cindex' = [cindex EXCEPT ![c] = 0]
    /\ ccell' = [ccell EXCEPT ![c] = 0]
    /\ cdata' = [cdata EXCEPT ![c] = 0]
    /\ UNCHANGED << qvars, loss_count_, pvars, ovars, read_index, shared_cursor,
                    ccurrent, cnext, coverrun, calls, resv, pubd, overrun, ahead >>

\* A return that takes the item out of the queue by clearing its slot.
ReadReturnConsuming(c) ==
    /\ cpc[c] = "size2"
    /\ got' = [got EXCEPT ![c] = Append(@, [index |-> cindex[c],
                                            len |-> control_[ccell[c]].size,
                                            cell |-> cdata[c],
                                            val |-> data_[cdata[c]]])]
    /\ control_' = [control_ EXCEPT ![ccell[c]].data_index = kInvalidIndex]
    /\ call' = [call EXCEPT ![c].res = "item"]
    /\ cpc' = [cpc EXCEPT ![c] = "idle"]
    /\ cindex' = [cindex EXCEPT ![c] = 0]
    /\ ccell' = [ccell EXCEPT ![c] = 0]
    /\ cdata' = [cdata EXCEPT ![c] = 0]
    /\ UNCHANGED << size_, reserved_, data_, last_published_, loss_count_, pvars, ovars,
                    read_index, shared_cursor, ccurrent, cnext, coverrun, calls,
                    resv, pubd, overrun, ahead >>

\* `return std::make_pair(&data, current_slot->size)`, line 377: the second
\* load of the slot's size; the caller then reads the cell.
ReadReturn(c) ==
    /\ cpc[c] = "size2"
    /\ got' = [got EXCEPT ![c] = Append(@, [index |-> cindex[c],
                                            len |-> control_[ccell[c]].size,
                                            cell |-> cdata[c],
                                            val |-> data_[cdata[c]]])]
    /\ call' = [call EXCEPT ![c].res = "item"]
    /\ cpc' = [cpc EXCEPT ![c] = "idle"]
    /\ cindex' = [cindex EXCEPT ![c] = 0]
    /\ ccell' = [ccell EXCEPT ![c] = 0]
    /\ cdata' = [cdata EXCEPT ![c] = 0]
    /\ UNCHANGED << qvars, loss_count_, pvars, ovars, read_index, shared_cursor,
                    ccurrent, cnext, coverrun, calls, resv, pubd, overrun, ahead >>

\* One step of consumer c, which calls read(cursor) again and again.
Consume(c) ==
    \/ ReadLoad(c)
    \/ ReadCheck(c)
    \/ ReadAdvance(c)
    \/ ReadReturn(c)

\* --------------------------------------- read(std::atomic<uint64_t>& cursor)

\* `current_index = read_index.load()`, line 390.  From "idle" this begins a
\* call.
StealLoadCursor(c) ==
    /\ cpc[c] \in {"idle", "loop"}
    /\ ccurrent' = [ccurrent EXCEPT ![c] = shared_cursor]
    /\ cpc' = [cpc EXCEPT ![c] = "a_ld"]
    /\ UNCHANGED << qvars, loss_count_, pvars, ovars, read_index, cdata, cindex, ccell,
                    shared_cursor, cnext, coverrun, calls, resv, pubd, got, call, overrun,
                    ahead >>

\* `index = current_slot->data_index.load(acquire)`, lines 391-393.
StealLoad(c) ==
    /\ cpc[c] = "a_ld"
    /\ LET idx == Masked(ccurrent[c])
           index == control_[idx].data_index
       IN  /\ cindex' = [cindex EXCEPT ![c] = index]
           /\ ccell' = [ccell EXCEPT ![c] = idx]
    /\ cpc' = [cpc EXCEPT ![c] = "a_chk"]
    /\ UNCHANGED << qvars, loss_count_, pvars, ovars, read_index, cdata, shared_cursor,
                    ccurrent, cnext, coverrun, calls, resv, pubd, got, call, overrun,
                    ahead >>

\* Lines 395-417: the load of the reservation word (when the slot is not the
\* sentinel) and the decisions taken on it.
StealCheck(c) ==
    /\ cpc[c] = "a_chk"
    /\ LET index == cindex[c]
           idx == ccell[c]
           current_index == ccurrent[c]
       IN  IF SeesReset(index, reserved_)
           THEN /\ cpc' = [cpc EXCEPT ![c] = "a_rst"]
                /\ UNCHANGED << coverrun, cindex, ccell, ccurrent >>
           ELSE IF NotReady(index, current_index)
           THEN /\ cpc' = [cpc EXCEPT ![c] = "idle"]
                /\ cindex' = [cindex EXCEPT ![c] = 0]
                /\ ccell' = [ccell EXCEPT ![c] = 0]
                /\ ccurrent' = [ccurrent EXCEPT ![c] = 0]
                /\ UNCHANGED coverrun
           ELSE IF SeesWrap(index, current_index, idx)
           THEN /\ cpc' = [cpc EXCEPT ![c] = "a_skip"]
                /\ UNCHANGED << coverrun, cindex, ccell, ccurrent >>
           ELSE /\ cpc' = [cpc EXCEPT ![c] = "a_size"]
                /\ coverrun' = [coverrun EXCEPT ![c] =
                                  IF SeesLoss(index, current_index, idx)
                                  THEN index - current_index ELSE 0]
                /\ UNCHANGED << cindex, ccell, ccurrent >>
    /\ UNCHANGED << qvars, loss_count_, pvars, ovars, read_index, cdata, shared_cursor, cnext,
                    calls, resv, pubd, got, call, overrun, ahead >>

\* `read_index.store(0); continue;`, lines 397-398: the queue has been reset.
StealReset(c) ==
    /\ cpc[c] = "a_rst"
    /\ shared_cursor' = 0
    /\ cpc' = [cpc EXCEPT ![c] = "loop"]
    /\ cindex' = [cindex EXCEPT ![c] = 0]
    /\ ccell' = [ccell EXCEPT ![c] = 0]
    /\ ccurrent' = [ccurrent EXCEPT ![c] = 0]
    /\ UNCHANGED << qvars, loss_count_, pvars, ovars, read_index, cdata, cnext, coverrun,
                    calls, resv, pubd, got, call >>
    /\ TrackOverrun

\* A skip that goes round the loop without moving the cursor.
StealSkipInPlace(c) ==
    /\ cpc[c] = "a_skip"
    /\ cpc' = [cpc EXCEPT ![c] = "loop"]
    /\ cindex' = [cindex EXCEPT ![c] = 0]
    /\ ccell' = [ccell EXCEPT ![c] = 0]
    /\ ccurrent' = [ccurrent EXCEPT ![c] = 0]
    /\ UNCHANGED << qvars, loss_count_, pvars, ovars, read_index, cdata, cnext, coverrun,
                    shared_cursor, calls, resv, pubd, got, call, overrun, ahead >>

\* `read_index.compare_exchange_weak(current_index, index); continue;`,
\* lines 415-416: skip the unused slots, whether or not the exchange succeeds.
StealSkip(c) ==
    /\ cpc[c] = "a_skip"
    /\ shared_cursor' = IF shared_cursor = ccurrent[c] THEN cindex[c] ELSE shared_cursor
    /\ cpc' = [cpc EXCEPT ![c] = "loop"]
    /\ cindex' = [cindex EXCEPT ![c] = 0]
    /\ ccell' = [ccell EXCEPT ![c] = 0]
    /\ ccurrent' = [ccurrent EXCEPT ![c] = 0]
    /\ UNCHANGED << qvars, loss_count_, pvars, ovars, read_index, cdata, cnext, coverrun,
                    calls, resv, pubd, got, call >>
    /\ TrackOverrun

\* A next index that takes every item for a single-slot one.
StealSizeOne(c) ==
    /\ cpc[c] = "a_size"
    /\ cnext' = [cnext EXCEPT ![c] = cindex[c] + 1]
    /\ cpc' = [cpc EXCEPT ![c] = "a_cas"]
    /\ UNCHANGED << qvars, loss_count_, pvars, ovars, read_index, cdata, cindex, ccell,
                    shared_cursor, ccurrent, coverrun, calls, resv, pubd, got,
                    call, overrun,
                    ahead >>

\* `next_index = index + current_slot->size`, line 420.
StealSize(c) ==
    /\ cpc[c] = "a_size"
    /\ cnext' = [cnext EXCEPT ![c] = cindex[c] + control_[ccell[c]].size]
    /\ cpc' = [cpc EXCEPT ![c] = "a_cas"]
    /\ UNCHANGED << qvars, loss_count_, pvars, ovars, read_index, cdata, cindex, ccell,
                    shared_cursor, ccurrent, coverrun, calls, resv, pubd, got,
                    call, overrun,
                    ahead >>

\* A claim that stores the next index without comparing the cursor first.
StealClaimBlind(c) ==
    /\ cpc[c] = "a_cas"
    /\ shared_cursor' = cnext[c]
    /\ loss_count_' = loss_count_ + coverrun[c]
    /\ cpc' = [cpc EXCEPT ![c] = "a_ret"]
    /\ cnext' = [cnext EXCEPT ![c] = 0]
    /\ coverrun' = [coverrun EXCEPT ![c] = 0]
    /\ UNCHANGED << cindex, ccell, ccurrent >>
    /\ UNCHANGED << qvars, pvars, ovars, read_index, cdata, calls, resv, pubd, got, call >>
    /\ TrackOverrun

\* The claim, lines 421-431: compare_exchange_weak(current_index, next_index)
\* on the shared cursor; on success the loss is accounted, on failure the loop
\* starts again.
StealClaim(c) ==
    /\ cpc[c] = "a_cas"
    /\ IF shared_cursor = ccurrent[c]
       THEN /\ shared_cursor' = cnext[c]
            /\ loss_count_' = loss_count_ + coverrun[c]
            /\ cpc' = [cpc EXCEPT ![c] = "a_ret"]
            /\ UNCHANGED << cindex, ccell, ccurrent >>
       ELSE /\ cpc' = [cpc EXCEPT ![c] = "loop"]
            /\ cindex' = [cindex EXCEPT ![c] = 0]
            /\ ccell' = [ccell EXCEPT ![c] = 0]
            /\ ccurrent' = [ccurrent EXCEPT ![c] = 0]
            /\ UNCHANGED << shared_cursor, loss_count_ >>
    /\ cnext' = [cnext EXCEPT ![c] = 0]
    /\ coverrun' = [coverrun EXCEPT ![c] = 0]
    /\ UNCHANGED << qvars, pvars, ovars, read_index, cdata, calls, resv, pubd, got, call >>
    /\ TrackOverrun

\* `return std::make_pair(&data_[current_index & mask_], current_slot->size)`,
\* line 428: the second load of the slot's size; the caller then reads the cell.
StealReturn(c) ==
    /\ cpc[c] = "a_ret"
    /\ LET len == control_[ccell[c]].size
           val == data_[Masked(ccurrent[c])]
       IN  got' = [got EXCEPT ![c] = Append(@, [index |-> cindex[c], len |-> len,
                                                cell |-> Masked(ccurrent[c]), val |-> val])]
    /\ cpc' = [cpc EXCEPT ![c] = "idle"]
    /\ cindex' = [cindex EXCEPT ![c] = 0]
    /\ ccell' = [ccell EXCEPT ![c] = 0]
    /\ ccurrent' = [ccurrent EXCEPT ![c] = 0]
    /\ UNCHANGED << qvars, loss_count_, pvars, ovars, read_index, cdata, shared_cursor,
                    cnext, coverrun, calls, resv, pubd, call, overrun,
                    ahead >>

\* One step of stealer c, which calls read(shared cursor) again and again.
\* StealReset is a step of the specifications in which reset() is called.
Steal(c) ==
    \/ StealLoadCursor(c)
    \/ StealLoad(c)
    \/ StealCheck(c)
    \/ StealSkip(c)
    \/ StealSize(c)
    \/ StealClaim(c)
    \/ StealReturn(c)

\* ----------------------------------------------------------------- read_last

\* The lengths a load beyond the end of the control array may give: whatever
\* the memory behind the array holds.
BeyondControl == 0 .. size_ + 1

\* `last_index = last_published_->load(acquire)` and the test for
\* kInvalidIndex, lines 440-444 (last_published_valid_ is true on a queue built
\* by this constructor, line 167).
ReadLastLoad(l) ==
    /\ lpc[l] = "idle"
    /\ llast' = [llast EXCEPT ![l] = last_published_]
    /\ IF last_published_ = kInvalidIndex
       THEN /\ lgot' = [lgot EXCEPT ![l] = [NoLast EXCEPT !.res = "empty"]]
            /\ UNCHANGED lpc
       ELSE /\ lpc' = [lpc EXCEPT ![l] = "l_size"]
            /\ UNCHANGED lgot
    /\ UNCHANGED << qvars, loss_count_, pvars, cvars, shared_cursor,
                    calls, resv, pubd, got, call, overrun, ahead >>
    /\ UNCHANGED << evars, svars >>

\* `slot &slot = control_[last_index]; return make_pair(&data_[last_index &
\* mask_], slot.size)`, lines 445-446: the control array is indexed with the
\* watermark itself, which is beyond the array once it has reached size_.
ReadLastSize(l) ==
    /\ lpc[l] = "l_size"
    /\ \E len \in IF llast[l] < size_ THEN {control_[llast[l]].size} ELSE BeyondControl :
          lgot' = [lgot EXCEPT ![l] = [res |-> "item", index |-> llast[l],
                                       cell |-> Masked(llast[l]), len |-> len,
                                       val |-> data_[Masked(llast[l])],
                                       inside |-> llast[l] < size_]]
    /\ lpc' = [lpc EXCEPT ![l] = "idle"]
    /\ UNCHANGED << qvars, loss_count_, pvars, cvars, shared_cursor, llast,
                    calls, resv, pubd, got, call, overrun, ahead >>
    /\ UNCHANGED << evars, svars >>

\* One step of a thread that calls read_last again and again.
ReadLast(l) ==
    \/ ReadLastLoad(l)
    \/ ReadLastSize(l)

\* ----------------------------------------------------------- specifications

\* The n the producers of SpecProducers ask for: every valid n on the small
\* queues, three slots at a time on the queue of 8 (tests.cpp, "buffer wrap").
ProducerLens == IF size_ = 8 THEN {3} ELSE 1 .. size_

InitProducers == \E N \in {2, 4, 8} : InitQueue(N)

NextProducers == \E p \in Producers : Produce(p, ProducerLens, MaxResv)

\* Producers only: concurrent reserve, write and publish.
SpecProducers == InitProducers /\ [][NextProducers]_vars

\* ------------------------------------------------------------------ claims

\* The slots [r, r + n) a reservation was given.
Range(e) == e.r .. (e.r + e.n - 1)

\* Whether a reservation that found the reservation index k had to wrap.
Wrapped(e) == e.n > 1 /\ Masked(e.k) + e.n > size_

\* The wrap gap of a reservation: [k, k + N - (k mod N)) if it wrapped.
Gap(e) == IF Wrapped(e) THEN e.k .. (e.k + size_ - Masked(e.k) - 1) ELSE {}

\* C1: for any interleaving of concurrent reserve(n) calls, single-slot and
\* multi-slot mixed, the ranges [r, r + n) given to distinct calls are pairwise
\* disjoint and disjoint from every wrap gap, and ranges and gaps together
\* cover exactly [0, reservation index).
C1_ReservationsTile ==
    /\ \A i, j \in DOMAIN resv :
          /\ i /= j => Range(resv[i]) \cap Range(resv[j]) = {}
          /\ Gap(resv[i]) \cap Range(resv[j]) = {}
          /\ i /= j => Gap(resv[i]) \cap Gap(resv[j]) = {}
    /\ UNION {Range(resv[i]) \cup Gap(resv[i]) : i \in DOMAIN resv}
          = 0 .. (get_index(reserved_) - 1)
    /\ \A p \in Producers :
          ppc[p] \in {"write", "p_size", "p_idx"} =>
             \E i \in DOMAIN resv : resv[i].r = pindex[p] /\ resv[i].n = pn[p]

\* C1 witness: three reservations, one of a single slot and one that wrapped,
\* made while another reserve call was between its CAS and its return.
C1_Witness ==
    /\ Len(resv) >= 3
    /\ \E i \in DOMAIN resv : Wrapped(resv[i])
    /\ \E i \in DOMAIN resv : resv[i].n = 1
    /\ \E p \in Producers : ppc[p] \in {"r_msize", "r_midx", "r_fix"}

\* C2: every reserve(n) with n > 1 returns an index r with (r mod N) + n <= N:
\* r is k + N - (k mod N) if the reservation index k at the successful CAS
\* has (k mod N) + n > N, and k otherwise.
C2_MultiSlotNeverStraddles ==
    /\ \A i \in DOMAIN resv :
          resv[i].n > 1 =>
            /\ Masked(resv[i].r) + resv[i].n <= size_
            /\ resv[i].r = IF Masked(resv[i].k) + resv[i].n > size_
                           THEN resv[i].k + size_ - Masked(resv[i].k)
                           ELSE resv[i].k
    /\ \A p \in Producers :
          (pn[p] > 1 /\ ppc[p] \in {"r_msize", "r_midx", "write", "p_size", "p_idx"}) =>
             Masked(pindex[p]) + pn[p] <= size_

\* C2 witness: on the queue of 8, three reserve(3) calls returned 0, 3 and 8.
C2_Witness ==
    /\ size_ = 8
    /\ resv = << [k |-> 0, r |-> 0, n |-> 3], [k |-> 3, r |-> 3, n |-> 3],
                 [k |-> 6, r |-> 8, n |-> 3] >>
    /\ \E p \in Producers : ppc[p] = "write" /\ pindex[p] = 8

\* The bound on reserve calls when consumers run too.
MaxItems == 3

InitReaders == InitQueue(4)

NextReaders ==
    \/ \E p \in Producers : Produce(p, {1, 3}, MaxItems)
    \/ \E c \in {"c1"} : Consume(c)

\* Two producers of one-slot and three-slot items and one consumer with a
\* cursor of its own.
SpecReaders == InitReaders /\ [][NextReaders]_vars

InitInOrder == InitQueue(4)

NextInOrder ==
    \/ \E p \in Producers : Produce(p, {1, 2}, MaxItems)
    \/ \E c \in {"c1"} : Consume(c)

\* Two producers of one-slot and two-slot items, which can wrap while the
\* reservation index stays less than size_ ahead of the cursor, and one
\* consumer with a cursor of its own.
SpecInOrder == InitInOrder /\ [][NextInOrder]_vars

\* The bound on reserve calls when two readers run.
MaxShared == 2

InitBroadcast == InitQueue(4)

NextBroadcast ==
    \/ Produce("p1", {1, 3}, MaxShared)
    \/ Produce("p2", {1}, MaxShared)
    \/ \E c \in Consumers : Consume(c)

\* Two producers and two consumers, each consumer with a cursor of its own.
SpecBroadcast == InitBroadcast /\ [][NextBroadcast]_vars

InitStealers == InitQueue(4)

NextStealers ==
    \/ Produce("p1", {1, 3}, MaxShared)
    \/ Produce("p2", {1}, MaxShared)
    \/ \E c \in Stealers : Steal(c)

\* Two producers and two consumers that share one atomic cursor.
SpecStealers == InitStealers /\ [][NextStealers]_vars

\* The number of single-slot items the producers of SpecFair publish in all.
MaxFair == 3

\* The steps of a producer of single-slot items: the multi-slot path of
\* reserve is not entered.
ProduceSingle(p) ==
    \/ ReserveFetchAdd(p, MaxFair)
    \/ ReserveFixSize(p)
    \/ WriteCells(p)
    \/ PublishSize(p)
    \/ PublishIndex(p)
    \/ PublishLoad(p)
    \/ PublishCas(p)

\* The steps of a stealer on a queue without wrap markers.
StealSingle(c) ==
    \/ StealLoadCursor(c)
    \/ StealLoad(c)
    \/ StealCheck(c)
    \/ StealSize(c)
    \/ StealClaim(c)
    \/ StealReturn(c)

InitFair == InitQueue(4)

NextFair ==
    \/ \E p \in Producers : ProduceSingle(p)
    \/ \E c \in Stealers : StealSingle(c)

\* Work stealing of MaxFair single-slot items under fair scheduling: every
\* thread that can take a step eventually takes one.
SpecFair ==
    /\ InitFair /\ [][NextFair]_vars
    /\ \A p \in Producers : WF_vars(ProduceSingle(p))
    /\ \A c \in Stealers : WF_vars(StealSingle(c))

\* The last item consumer c was returned.
LastGot(c) == got[c][Len(got[c])]

\* Whether consumer c is between two read calls, the last of which returned.
Returned(c) == cpc[c] = "idle" /\ call[c].res \in {"empty", "item"}

\* The reservation that was given index r.
ResvAt(r) == resv[CHOOSE i \in DOMAIN resv : resv[i].r = r]

\* C3: absent overwrite, after r = reserve(n), writing v into the cell of r and
\* publish(r, n), a read with an independent cursor equal to r returns the cell
\* at r mod N holding v together with length n and sets the cursor to r + n; a
\* following read with that cursor, begun and ended with nothing published at
\* or beyond it, returns empty.
C3_PublishThenRead ==
    \A c \in Consumers :
       /\ (Returned(c) /\ call[c].due = call[c].start /\ ~overrun[c]) =>
             /\ call[c].res = "item"
             /\ LastGot(c).index = call[c].start
             /\ LastGot(c).cell = Masked(call[c].start)
             /\ LastGot(c).val = ValueOf(call[c].start)
             /\ LastGot(c).len = ResvAt(call[c].start).n
             /\ read_index[c] = call[c].start + ResvAt(call[c].start).n
       /\ (Returned(c) /\ \A i \in pubd : i < call[c].start) =>
             call[c].res = "empty"

\* C3 witness: the consumer was returned the three-slot item published at 0,
\* and its next read, at cursor 3, returned empty.
C3_Witness ==
    /\ ~overrun["c1"]
    /\ Len(got["c1"]) = 1
    /\ LastGot("c1") = [index |-> 0, len |-> 3, cell |-> 0, val |-> ValueOf(0)]
    /\ Returned("c1") /\ call["c1"].res = "empty" /\ call["c1"].start = 3
    /\ read_index["c1"] = 3

\* C4: read(cursor) returns (null, 0) and leaves the cursor unchanged whenever
\* the slot at cursor mod N is never-published or holds a published index
\* smaller than the cursor, even when reservations with larger indices are
\* already published; in the scenario of the example (queue of 4, nothing
\* overwritten) index c reserved but unpublished makes every read at cursor c
\* empty, and an item that follows a reservation c is returned right after c.
C4_EmptyUntilPublished ==
    \A c \in Consumers :
       /\ (call[c].res /= "none"
             /\ (call[c].first = kInvalidIndex \/ call[c].first < call[c].start)) =>
             /\ cpc[c] \in {"chk", "idle"}
             /\ read_index[c] = call[c].start
             /\ cpc[c] = "idle" => call[c].res = "empty"
       /\ (Returned(c) /\ ~overrun[c] /\ call[c].start \notin pubd
             /\ \E i \in DOMAIN resv : resv[i].r = call[c].start) =>
             (call[c].res = "empty" /\ read_index[c] = call[c].start)
       /\ ~overrun[c] =>
             \A j \in DOMAIN got[c] : \A i \in DOMAIN resv :
                resv[i].r + resv[i].n = got[c][j].index =>
                   (j > 1 /\ got[c][j - 1].index = resv[i].r)

\* C4 witness: index 0 is reserved and not published, index 1 is published,
\* and a read at cursor 0 has returned empty with the cursor still 0.
C4_Witness ==
    /\ 0 \notin pubd /\ 1 \in pubd
    /\ \E i \in DOMAIN resv : resv[i].r = 0 /\ resv[i].n = 1
    /\ Returned("c1") /\ call["c1"].res = "empty" /\ call["c1"].start = 0
    /\ read_index["c1"] = 0

\* C5: if the reservation index never gets N or more ahead of a consumer's
\* cursor and there is no reset, then under any interleaving of producers,
\* out-of-order publication included, the k-th successful read of a cursor
\* started at 0 returns the k-th reservation in reservation order, at its
\* cell: no item is skipped and none comes out of order.  If moreover no slot
\* is reused while the consumer still holds the item in it, the length and the
\* value returned are those of that reservation.
C5_InOrderNoSkip ==
    \A c \in Consumers :
       /\ ~ahead[c] =>
             /\ Len(got[c]) <= Len(resv)
             /\ \A j \in DOMAIN got[c] :
                   /\ got[c][j].index = resv[j].r
                   /\ got[c][j].cell = Masked(resv[j].r)
       /\ ~overrun[c] =>
             /\ Len(got[c]) <= Len(resv)
             /\ \A j \in DOMAIN got[c] :
                   /\ got[c][j].index = resv[j].r
                   /\ got[c][j].cell = Masked(resv[j].r)
                   /\ got[c][j].len = resv[j].n
                   /\ got[c][j].val = ValueOf(resv[j].r)

\* C5 witness: with the reservation index never size_ or more ahead of the
\* cursor, the consumer was returned the first three reservations, the third
\* of which had wrapped to the next lap.
C5_Witness ==
    /\ ~overrun["c1"] /\ ~ahead["c1"]
    /\ Len(got["c1"]) = 3
    /\ Wrapped(resv[3]) /\ LastGot("c1").index = resv[3].r
    /\ Returned("c1")

\* C7 (state part): the published indices of the items one cursor's successive
\* successful reads return are strictly increasing, overwrite or not.
C7_IndicesIncrease ==
    \A c \in Consumers :
       \A i, j \in DOMAIN got[c] : i < j => got[c][i].index < got[c][j].index

\* C7: absent reset, for one independent cursor the published indices of the
\* items returned by its successive successful reads are strictly increasing
\* and the cursor value never decreases, even when producers lap the consumer
\* and overwrite slots.
C7_MonotoneCursor ==
    /\ [](C7_IndicesIncrease)
    /\ [][\A c \in Consumers : read_index'[c] >= read_index[c]]_vars

\* C7 witness: a consumer that producers lapped was returned two items and
\* counted a loss.
C7_Witness ==
    /\ overrun["c1"]
    /\ Len(got["c1"]) >= 2
    /\ loss_count_ > 0

\* C10 as stated: after a multi-slot reserve wrapped from k to r and returned,
\* and before the reservation at r is published, a read with an independent
\* cursor equal to k returns empty and leaves the cursor equal to r.
C10_Original ==
    \A c \in Consumers :
       (Returned(c) /\ call[c].mark >= 0 /\ call[c].mark \notin pubd) =>
          (call[c].res = "empty" /\ read_index[c] = call[c].mark)

\* C10 as amended: the same, provided no reservation has reused a slot the
\* consumer still needs (no overwrite of the slot at k mod N or of slot 0).
C10_WrapSkipEmpty ==
    \A c \in Consumers :
       (Returned(c) /\ call[c].mark >= 0 /\ call[c].mark \notin pubd /\ ~overrun[c]) =>
          (call[c].res = "empty" /\ read_index[c] = call[c].mark)

\* C10 witness: a read begun at cursor 3, the index a reserve(3) abandoned for
\* index 4, returned empty and left the cursor at 4, with 4 still unpublished.
C10_Witness ==
    /\ ~overrun["c1"]
    /\ Returned("c1") /\ call["c1"].start = 3 /\ call["c1"].mark = 4
    /\ call["c1"].res = "empty" /\ read_index["c1"] = 4
    /\ 4 \notin pubd

\* The indices of the items reader c was returned.
GotIndices(c) == {got[c][j].index : j \in DOMAIN got[c]}

\* C6: absent overwrite and reset, two consumers with independent cursors that
\* both start at 0 are returned the same sequence of items under any
\* interleaving with the producers and with each other: each item once, each
\* item published and with the value written, no published item below the
\* cursor left out, and a read never empty when the next reservation at or
\* beyond its cursor was already published.
C6_Broadcast ==
    /\ \A c \in Consumers :
          ~overrun[c] =>
             /\ \A i, j \in DOMAIN got[c] :
                   i /= j => got[c][i].index /= got[c][j].index
             /\ \A j \in DOMAIN got[c] :
                   /\ got[c][j].index \in pubd
                   /\ got[c][j].val = ValueOf(got[c][j].index)
                   /\ got[c][j].len = ResvAt(got[c][j].index).n
             /\ \A i \in pubd : i < Position(c) => i \in GotIndices(c)
             /\ (Returned(c) /\ call[c].due >= 0) =>
                   (call[c].res = "item" /\ LastGot(c).index = call[c].due)
    /\ (~overrun["c1"] /\ ~overrun["c2"]) =>
          \A j \in DOMAIN got["c1"] \cap DOMAIN got["c2"] :
             got["c1"][j] = got["c2"][j]

\* C6 witness: both consumers were returned both published items, a
\* three-slot one among them, with nothing overwritten.
C6_Witness ==
    /\ ~overrun["c1"] /\ ~overrun["c2"]
    /\ Len(got["c1"]) = 2 /\ got["c2"] = got["c1"]
    /\ \E j \in DOMAIN got["c1"] : got["c1"][j].len = 3
    /\ GotIndices("c1") = pubd

\* C8: for consumers that share one atomic cursor, absent overwrite and reset,
\* no published item is returned by two successful reads, under any
\* interleaving of the consumers with each other and with producers.
C8_NoItemTwice ==
    ~overrun["shared"] =>
       /\ \A c \in Stealers : \A i, j \in DOMAIN got[c] :
             i /= j => got[c][i].index /= got[c][j].index
       /\ \A c, d \in Stealers : c /= d => GotIndices(c) \cap GotIndices(d) = {}
       /\ \A c \in Stealers : GotIndices(c) \subseteq pubd

\* C8 witness: each of the two stealers was returned one of two published
\* items after both had loaded the same value of the shared cursor.
C8_Witness ==
    /\ ~overrun["shared"]
    /\ Len(got["s1"]) = 1 /\ Len(got["s2"]) = 1
    /\ got["s1"][1].index /= got["s2"][1].index
    /\ shared_cursor = 2

\* The number of successful reads of the shared cursor so far.
TotalReads == Len(got["s1"]) + Len(got["s2"])

\* C9: with producers that reserve and publish MaxFair single-slot items in
\* all (no more than N, so nothing is overwritten) and consumers that keep
\* calling read on one shared atomic cursor that starts at 0, under fair
\* scheduling the number of successful reads eventually equals the number of
\* items, and whenever it does the shared cursor equals that number.
C9_AllItemsStolen ==
    /\ <>(TotalReads = MaxFair)
    /\ [](TotalReads <= MaxFair)
    /\ [](TotalReads = MaxFair => shared_cursor = MaxFair)

\* C9 witness: all items were read, some by each stealer, and the shared
\* cursor stands at their number.
C9_Witness ==
    /\ TotalReads = MaxFair
    /\ got["s1"] /= <<>> /\ got["s2"] /= <<>>
    /\ shared_cursor = MaxFair
    /\ GotIndices("s1") \cup GotIndices("s2") = 0 .. MaxFair - 1

\* Whether consumer c's last read call began at an index k that a wrapping
\* reserve had abandoned for an index that was published by then.
BeganAtPublishedWrap(c) ==
    \E i \in DOMAIN resv :
       /\ Wrapped(resv[i])
       /\ resv[i].k = call[c].start
       /\ resv[i].r = call[c].due

\* C11 as stated: after a wrapping reserve(n) that abandoned index k and
\* returned r has been published with publish(r, n), a single read call with
\* an independent cursor equal to k returns the cell at r mod N with length n
\* and sets the cursor to r + n.
C11_Original ==
    \A c \in Consumers :
       (Returned(c) /\ BeganAtPublishedWrap(c)) =>
          /\ call[c].res = "item"
          /\ LastGot(c).index = call[c].due
          /\ LastGot(c).cell = Masked(call[c].due)
          /\ LastGot(c).len = ResvAt(call[c].due).n
          /\ read_index[c] = call[c].due + ResvAt(call[c].due).n

\* C11 as amended: the same, provided no reservation has reused a slot the
\* consumer still needs (no overwrite of the marker or of the item).
C11_WrapSkipThenItem ==
    \A c \in Consumers :
       (Returned(c) /\ BeganAtPublishedWrap(c) /\ ~overrun[c]) =>
          /\ call[c].res = "item"
          /\ LastGot(c).index = call[c].due
          /\ LastGot(c).cell = Masked(call[c].due)
          /\ LastGot(c).val = ValueOf(call[c].due)
          /\ LastGot(c).len = ResvAt(call[c].due).n
          /\ read_index[c] = call[c].due + ResvAt(call[c].due).n

\* C11 witness: one read call that began at cursor 3, abandoned for index 4,
\* returned the three-slot item published at 4 in cell 0 and ended at 7.
C11_Witness ==
    /\ ~overrun["c1"]
    /\ Returned("c1") /\ call["c1"].start = 3 /\ call["c1"].due = 4
    /\ call["c1"].res = "item"
    /\ LastGot("c1") = [index |-> 4, len |-> 3, cell |-> 0, val |-> ValueOf(4)]
    /\ read_index["c1"] = 7

\* --------------------------------------------- publish everything, then read

\* The bound on the single-slot items published before the consumer starts.
MaxLossy == 5

\* The steps of a producer of at most max single-slot items.
ProduceOne(p, max) ==
    \/ ReserveFetchAdd(p, max)
    \/ ReserveFixSize(p)
    \/ WriteCells(p)
    \/ PublishSize(p)
    \/ PublishIndex(p)
    \/ PublishLoad(p)
    \/ PublishCas(p)

\* No producer is inside reserve, a write or publish.
Quiet == \A p \in Producers : ppc[p] = "idle"

\* Consumer c has not called read yet.
Fresh(c) == cpc[c] = "idle" /\ call[c].res = "none"

InitLossy == \E N \in {2, 4} : InitQueue(N)

NextLossy ==
    \/ \E p \in Producers :
          /\ Fresh("c1")
          /\ \A q \in Producers \ {p} : ppc[q] = "idle"
          /\ ProduceOne(p, MaxLossy)
    \/ \E c \in {"c1"} : Quiet /\ Consume(c)

\* Single-slot items are reserved and published one after the other, by either
\* producer, with no read in between; then a fresh consumer reads until empty.
SpecLossy == InitLossy /\ [][NextLossy]_vars

\* Consumer c's last read call returned empty.
Drained(c) == Returned(c) /\ call[c].res = "empty"

\* The index held by slot 0 once `count` single-slot items are published in
\* order: the first index of the newest lap.
NewestLap(count) == size_ * ((count - 1) \div size_)

\* C12 as stated: with capacity N and k > N single-slot items reserved and
\* published in order with no reads in between, a consumer whose cursor starts
\* at 0 then reads, in order, the items with indices k - N through k - 1.
C12_Original ==
    \A c \in Consumers :
       (Drained(c) /\ calls > size_) =>
          /\ Len(got[c]) = size_
          /\ \A j \in DOMAIN got[c] : got[c][j].index = calls - size_ + j - 1

\* C12 as amended: under the same conditions the consumer reads, in order,
\* the items from the one held by slot 0, index N * floor((k - 1) / N),
\* through k - 1, each with its value and length 1.
C12_ReadsNewestLap ==
    \A c \in Consumers :
       (calls > size_) =>
          /\ Len(got[c]) <= calls - NewestLap(calls)
          /\ Drained(c) => Len(got[c]) = calls - NewestLap(calls)
          /\ \A j \in DOMAIN got[c] :
                /\ got[c][j].index = NewestLap(calls) + j - 1
                /\ got[c][j].cell = Masked(got[c][j].index)
                /\ got[c][j].val = ValueOf(got[c][j].index)
                /\ got[c][j].len = 1

\* C12 witness: on a queue of 2 with three items published, the consumer was
\* returned the item with index 2 alone and then found the queue empty.
C12_Witness ==
    /\ size_ = 2 /\ calls = 3
    /\ Drained("c1")
    /\ Len(got["c1"]) = 1 /\ got["c1"][1].index = 2

InitOverwrite == \E N \in {2, 4} : InitQueue(N)

NextOverwrite ==
    \/ \E p \in Producers :
          /\ Fresh("c1")
          /\ \A q \in Producers \ {p} : ppc[q] = "idle"
          /\ Produce(p, {1, 2}, MaxLossy)
    \/ \E c \in {"c1"} : Quiet /\ Consume(c)

\* One-slot and two-slot items are reserved and published one after the
\* other with no read in between; then a fresh consumer reads until empty.
SpecOverwrite == InitOverwrite /\ [][NextOverwrite]_vars

\* Consumer c's last read call found, at its first load, the slot of its
\* cursor overwritten in place: a larger index with the same offset.
BeganOverwritten(c) ==
    /\ call[c].first /= kInvalidIndex
    /\ call[c].first > call[c].start
    /\ Masked(call[c].first) = Masked(call[c].start)

C14_Original ==
    \A c \in Consumers : \A j \in DOMAIN got[c] :
       got[c][j].index \in pubd => got[c][j].val = ValueOf(got[c][j].index)

\* C14 as amended: the same for every interleaving in which no reservation
\* reuses a slot the consumer still needs (no producer laps the consumer):
\* from the moment the consumer has observed index r until it reads the cell,
\* the cell at r mod N holds the value written for r.
C14_PublishedValueVisible ==
    \A c \in Consumers :
       ~overrun[c] =>
          /\ cpc[c] \in {"size1", "size2"} =>
                /\ cindex[c] \in pubd
                /\ cdata[c] = Masked(cindex[c])
                /\ data_[cdata[c]] = ValueOf(cindex[c])
          /\ \A j \in DOMAIN got[c] :
                /\ got[c][j].index \in pubd
                /\ got[c][j].val = ValueOf(got[c][j].index)

\* C14 witness: with nothing overwritten the consumer was returned two items,
\* the second one the value written for index 1, and the watermark is at 1.
C14_Witness ==
    /\ ~overrun["c1"]
    /\ Len(got["c1"]) = 2
    /\ got["c1"][2].index = 1 /\ got["c1"][2].val = ValueOf(1)
    /\ last_published_ = 1

\* ------------------------------------------------ producers and every reader

\* The lengths the producer of SpecFrame asks for.
FrameLens == {1, 3}

InitFrame == InitQueue(4)

\* No reader other than r has made a call that left a trace: the behaviour
\* is one of the producer next to reader r.
OnlyReader(r) ==
    /\ \A c \in Consumers \ {r} : Fresh(c)
    /\ \A s \in Stealers \ {r} : cpc[s] = "idle" /\ got[s] = << >>
    /\ r \notin Stealers => shared_cursor = 0
    /\ \A l \in LastReaders \ {r} : lpc[l] = "idle" /\ lgot[l].res = "none"

NextFrame ==
    \/ \E p \in Producers : Produce(p, FrameLens, MaxShared)
    \/ \E c \in {"c1"} : OnlyReader(c) /\ Consume(c)
    \/ \E s \in {"s1"} : OnlyReader(s) /\ Steal(s)
    \/ \E l \in LastReaders : OnlyReader(l) /\ ReadLast(l)

\* Two producers next to a reader of one of the three kinds: a cursor of its own,
\* the atomic cursor, or read_last.  The reader may lag as far as it likes,
\* and its calls overlap the producers' calls in every way.
SpecFrame == InitFrame /\ [][NextFrame]_vars

\* A step of some reader: of read with either kind of cursor or of read_last.
ReaderStep ==
    \/ \E c \in Consumers : Consume(c)
    \/ \E s \in Stealers : Steal(s)
    \/ \E l \in LastReaders : ReadLast(l)

\* C15 (state part): however far the readers lag, a producer inside reserve,
\* a write or publish can take its next step, a producer outside any call can
\* begin reserve(n) for every n the specification allows, and every
\* reservation made got the index that the reservation word alone decides:
\* the reservations follow one another from 0 and wrap as reserve computes.
C15_ProducersNeverBlocked ==
    /\ \A p \in Producers :
          /\ ppc[p] /= "idle" => ENABLED Produce(p, FrameLens, MaxShared)
          /\ (ppc[p] = "idle" /\ calls < MaxShared) =>
                /\ ENABLED ReserveFetchAdd(p, MaxShared)
                /\ \A n \in FrameLens \ {1} : ENABLED ReserveLoad(p, n, MaxShared)
    /\ \A i \in DOMAIN resv :
          /\ resv[i].k = IF i = 1 THEN 0 ELSE resv[i - 1].r + resv[i - 1].n
          /\ resv[i].r = ReservedIndex(resv[i].k, resv[i].n)
    /\ get_index(reserved_) =
          IF resv = << >> THEN 0 ELSE resv[Len(resv)].r + resv[Len(resv)].n

\* C15: producers are independent of consumers: no step of read, with either
\* kind of cursor, and no step of read_last changes the reservation word, a
\* slot's control record, a data cell, the watermark or a producer's locals,
\* so reserve and publish go on with the same results however far a reader's
\* cursor lags.
C15_ReadersLeaveQueueAlone ==
    /\ [][ReaderStep => UNCHANGED << qvars, pvars, calls, resv, pubd >>]_vars
    /\ []C15_ProducersNeverBlocked

\* C15 witness: the consumer has called read and its cursor is still 0, and
\* the producer has lapped it and published everything it reserved.
C15_Witness ==
    /\ read_index["c1"] = 0 /\ Returned("c1") /\ overrun["c1"]
    /\ get_index(reserved_) > size_
    /\ Quiet

\* The indices of the publish calls that have returned: the index is stored
\* and the watermark loop has ended.
Completed ==
    pubd \ {pindex[p] : p \in {q \in Producers : ppc[q] \in {"p_load", "p_cas"}}}

\* The greatest index of a completed publish call.
Greatest == CHOOSE i \in Completed : \A j \in Completed : j <= i

\* C16, as claimed: read_last returns the cell and the length of the completed
\* publish call with the greatest index, which is what the watermark names,
\* whatever was reserved and not published since; it returns (null, 0) while
\* no publish call has completed.
C16_Original ==
    /\ last_published_ = IF Completed = {} THEN kInvalidIndex ELSE Greatest
    /\ \A l \in LastReaders :
          /\ lgot[l].res = "item" =>
                /\ lgot[l].index \in pubd
                /\ lgot[l].cell = Masked(lgot[l].index)
                /\ lgot[l].len = ResvAt(lgot[l].index).n
          /\ (lgot[l].res = "empty" /\ lpc[l] = "idle") =>
                lgot[l].index = kInvalidIndex /\ lgot[l].len = 0

\* C17, as claimed: for every watermark L, beyond the first lap too, read_last
\* reads the length from control[L mod N], so never outside the control array,
\* and returns it with the cell data[L mod N].
C17_Original ==
    \A l \in LastReaders :
        lgot[l].res = "item" =>
            /\ lgot[l].inside
            /\ lgot[l].cell = lgot[l].index % size_
            /\ lgot[l].len = ResvAt(lgot[l].index).n

\* ------------------------------------------------------------ reserve throws

\* reserve: the two checks of its argument, lines 252-257.  The call throws
\* before it touches the queue: std::invalid_argument for n == 0,
\* std::runtime_error for n > size_.
ReserveThrow(p, n) ==
    /\ ppc[p] = "idle"
    /\ n = 0 \/ n > size_
    /\ perr' = [perr EXCEPT ![p] = IF n = 0 THEN "invalid_argument"
                                          ELSE "runtime_error"]
    /\ UNCHANGED << qvars, loss_count_, pvars, cvars, shared_cursor,
                    calls, resv, pubd, got, call, overrun, ahead,
                    lpc, llast, lgot, ctor, resets, svars >>

InitReject == \E N \in {2, 4} : InitQueue(N)

NextReject ==
    \/ \E p \in Producers : Produce(p, {1, 2}, MaxResv)
    \/ \E p \in Producers : \E n \in 0 .. (size_ + 2) : ReserveThrow(p, n)

\* Two producers whose reserve calls are given any n from 0 to N + 2.
SpecReject == InitReject /\ [][NextReject]_vars

\* A failed reserve leaves the queue and the histories as they were.
FailedReserveChangesNothing ==
    [][perr' /= perr =>
          UNCHANGED << qvars, loss_count_, pvars, calls, resv, pubd >>]_vars

\* The reservations follow one another as if no reserve call had failed.
ReservationsUnbroken ==
    /\ \A i \in DOMAIN resv :
          /\ resv[i].k = IF i = 1 THEN 0 ELSE resv[i - 1].r + resv[i - 1].n
          /\ resv[i].r = ReservedIndex(resv[i].k, resv[i].n)
    /\ get_index(reserved_) =
          IF resv = << >> THEN 0 ELSE resv[Len(resv)].r + resv[Len(resv)].n

\* C18, as claimed: reserve(0) and reserve(n) with n > N fail with an
\* invalid-argument error, and the valid reserve calls are given the indices
\* they would have been given without the failed calls.
C18_Original ==
    /\ \A p \in Producers : perr[p] \in {"none", "invalid_argument"}
    /\ ReservationsUnbroken

\* ------------------------------------------------------------- construction

\* The greatest capacity a constructor is called with.
MaxSize == 9

\* No queue yet: nothing is allocated and no member has a value of interest.
InitCtor ==
    /\ size_ = 0
    /\ reserved_ = 0
    /\ control_ = << >>
    /\ data_ = << >>
    /\ last_published_ = 0
    /\ ctor = "none"
    /\ ZeroHeader
    /\ InitThreads

\* SlickQueue(size), shm_name == nullptr, lines 150-171: std::invalid_argument
\* unless size is a power of two; otherwise the reservation word is 0, the
\* watermark kInvalidIndex, and `new T[size_]`, `new slot[size_]` give size
\* cells and size default slots {kInvalidIndex, 1}.
Construct(size) ==
    /\ ctor = "none"
    /\ size_' = size
    /\ IF ~is_power_of_two(size)
       THEN /\ ctor' = "invalid_argument"
            /\ UNCHANGED << reserved_, control_, data_, last_published_ >>
       ELSE /\ reserved_' = 0
            /\ last_published_' = kInvalidIndex
            /\ data_' = [s \in 0 .. (size - 1) |-> Unwritten]
            /\ control_' = [s \in 0 .. (size - 1) |->
                              [data_index |-> kInvalidIndex, size |-> 1]]
            /\ ctor' = "ok"
    /\ UNCHANGED << loss_count_, pvars, cvars, shared_cursor,
                    calls, resv, pubd, got, call, overrun, ahead,
                    lpc, llast, lgot, perr, resets, svars >>

NextCtor ==
    \/ \E size \in 0 .. MaxSize : Construct(size)
    \/ ctor = "ok" /\ \E p \in {"p1"} : ProduceOne(p, MaxShared)
    \/ ctor = "ok" /\ \E c \in {"c1"} : Consume(c)

\* A constructor call with any capacity up to MaxSize, then a producer and a
\* consumer using the queue if there is one.
SpecCtor == InitCtor /\ [][NextCtor]_vars

\* 1, 2, 4, 8, ...
PowersOfTwo == {2 ^ e : e \in 0 .. 30}

\* C19: the constructor fails with an invalid-argument error exactly for the
\* capacities that are not powers of two, 0 among them, and then there is no
\* queue to use; for a power of two it gives a private queue of that many
\* slots with reservation index 0, the watermark at the sentinel and every
\* slot never published.
C19_ConstructorChecksCapacity ==
    /\ ctor = "invalid_argument" <=> (ctor /= "none" /\ size_ \notin PowersOfTwo)
    /\ ctor = "ok" <=> (ctor /= "none" /\ size_ \in PowersOfTwo)
    /\ ctor = "invalid_argument" =>
          /\ control_ = << >> /\ data_ = << >>
          /\ calls = 0 /\ got["c1"] = << >> /\ ~ ENABLED NextCtor
    /\ (ctor = "ok" /\ calls = 0) =>
          /\ reserved_ = 0
          /\ last_published_ = kInvalidIndex
          /\ DOMAIN control_ = 0 .. (size_ - 1)
          /\ DOMAIN data_ = 0 .. (size_ - 1)
          /\ \A s \in Slots : control_[s].data_index = kInvalidIndex

\* C19 witness: a queue of 8 slots was constructed and has been used: its
\* consumer has read an item.
C19_Witness == ctor = "ok" /\ size_ = 8 /\ got["c1"] /= << >>

\* ------------------------------------------------- shared-memory handshake

\* The turns of the loop of wait_for_shared_memory_ready (kMaxWaitMs in the
\* code, one millisecond of sleep each).
MaxWait == 2

\* kLegacyGraceMs, line 512.
kLegacyGraceMs == 5

\* What the handshake leaves alone.
nonshm == << loss_count_, pvars, cvars, shared_cursor, calls, resv, pubd, got,
             call, overrun, ahead, lpc, llast, lgot, evars >>

\* The region exists once a create-or-open constructor has mapped it.
Mapped ==
    \/ init_state /= INIT_STATE_UNINITIALIZED
    \/ \E o \in Creators : opc[o] /= "idle"

\* A freshly created region: every byte is 0, so the init state is
\* INIT_STATE_UNINITIALIZED, and no opener has started.
InitShm ==
    /\ size_ = 0
    /\ reserved_ = 0
    /\ control_ = << >>
    /\ data_ = << >>
    /\ last_published_ = 0
    /\ ctor = "none"
    /\ ZeroHeader
    /\ InitThreads

\* The sizeof(T) of the queue types the openers instantiate (int, double).
ElementSizes == {4, 8}

\* A create-or-open that takes the region for its own whenever it is not
\* ready yet.
OpenCasUnlessReady(o, size) ==
    /\ opc[o] = "idle"
    /\ is_power_of_two(size)
    /\ osize' = [osize EXCEPT ![o] = size]
    /\ \E e \in ElementSizes : oelement' = [oelement EXCEPT ![o] = e]
    /\ IF init_state /= INIT_STATE_READY
       THEN /\ init_state' = INIT_STATE_INITIALIZING
            /\ own_' = [own_ EXCEPT ![o] = TRUE]
            /\ opc' = [opc EXCEPT ![o] = "s_magic"]
       ELSE /\ own_' = [own_ EXCEPT ![o] = FALSE]
            /\ opc' = [opc EXCEPT ![o] = "s_wait"]
            /\ UNCHANGED init_state
    /\ UNCHANGED << qvars, shm_size, header_magic, element_size, ovalid,
                    owait, nonshm >>

\* SlickQueue(size, shm_name) up to the compare_exchange_strong of the init
\* state from UNINITIALIZED to INITIALIZING, lines 594-620, and the own_ the
\* outcome gives, lines 624 and 651.
OpenCas(o, size) ==
    /\ opc[o] = "idle"
    /\ is_power_of_two(size)
    /\ osize' = [osize EXCEPT ![o] = size]
    /\ \E e \in ElementSizes : oelement' = [oelement EXCEPT ![o] = e]
    /\ IF init_state = INIT_STATE_UNINITIALIZED
       THEN /\ init_state' = INIT_STATE_INITIALIZING
            /\ own_' = [own_ EXCEPT ![o] = TRUE]
            /\ opc' = [opc EXCEPT ![o] = "s_magic"]
       ELSE /\ own_' = [own_ EXCEPT ![o] = FALSE]
            /\ opc' = [opc EXCEPT ![o] = "s_wait"]
            /\ UNCHANGED init_state
    /\ UNCHANGED << qvars, shm_size, header_magic, element_size, ovalid,
                    owait, nonshm >>

\* `header_magic->store(HEADER_MAGIC, release)`, lines 626-627.
OpenInitMagic(o) ==
    /\ opc[o] = "s_magic"
    /\ header_magic' = HEADER_MAGIC
    /\ opc' = [opc EXCEPT ![o] = "s_resv"]
    /\ UNCHANGED << qvars, init_state, shm_size, element_size,
                    osize, oelement, own_, ovalid, owait, nonshm >>

\* `reserved_->store(0, relaxed)`, lines 630-631.
OpenInitReserved(o) ==
    /\ opc[o] = "s_resv"
    /\ reserved_' = 0
    /\ opc' = [opc EXCEPT ![o] = "s_water"]
    /\ UNCHANGED << size_, control_, data_, last_published_, hvars,
                    osize, oelement, own_, ovalid, owait, nonshm >>

\* `last_published_->store(kInvalidIndex, relaxed)` and
\* `last_published_valid_ = true`, lines 633-635.
OpenInitWatermark(o) ==
    /\ opc[o] = "s_water"
    /\ last_published_' = kInvalidIndex
    /\ ovalid' = [ovalid EXCEPT ![o] = TRUE]
    /\ opc' = [opc EXCEPT ![o] = "s_size"]
    /\ UNCHANGED << size_, reserved_, control_, data_, hvars,
                    osize, oelement, own_, owait, nonshm >>

\* An initialisation that announces the region as ready once it has written
\* the capacity.
OpenInitSizeReady(o) ==
    /\ opc[o] = "s_size"
    /\ shm_size' = osize[o]
    /\ size_' = osize[o]
    /\ init_state' = INIT_STATE_READY
    /\ opc' = [opc EXCEPT ![o] = "s_element"]
    /\ UNCHANGED << reserved_, control_, data_, last_published_,
                    header_magic, element_size,
                    osize, oelement, own_, ovalid, owait, nonshm >>

\* The capacity is written into the header, lines 638-639.
OpenInitSize(o) ==
    /\ opc[o] = "s_size"
    /\ shm_size' = osize[o]
    /\ size_' = osize[o]
    /\ opc' = [opc EXCEPT ![o] = "s_element"]
    /\ UNCHANGED << reserved_, control_, data_, last_published_,
                    init_state, header_magic, element_size,
                    osize, oelement, own_, ovalid, owait, nonshm >>

\* sizeof(T) is written into the header, lines 640-641.
OpenInitElement(o) ==
    /\ opc[o] = "s_element"
    /\ element_size' = oelement[o]
    /\ opc' = [opc EXCEPT ![o] = "s_control"]
    /\ UNCHANGED << qvars, init_state, shm_size, header_magic,
                    osize, oelement, own_, ovalid, owait, nonshm >>

\* `control_ = new (base + HEADER_SIZE) slot[size_]`, line 644: every slot
\* becomes {kInvalidIndex, 1}.
OpenInitControl(o) ==
    /\ opc[o] = "s_control"
    /\ control_' = [s \in 0 .. (osize[o] - 1) |->
                      [data_index |-> kInvalidIndex, size |-> 1]]
    /\ opc' = [opc EXCEPT ![o] = "s_data"]
    /\ UNCHANGED << size_, reserved_, data_, last_published_, hvars,
                    osize, oelement, own_, ovalid, owait, nonshm >>

\* `data_ = new (...) T[size_]`, line 645.
OpenInitData(o) ==
    /\ opc[o] = "s_data"
    /\ data_' = [s \in 0 .. (osize[o] - 1) |-> Unwritten]
    /\ opc' = [opc EXCEPT ![o] = "s_ready"]
    /\ UNCHANGED << size_, reserved_, control_, last_published_, hvars,
                    osize, oelement, own_, ovalid, owait, nonshm >>

\* The creator writes the header and the arrays, lines 626-645.
OpenInit(o) ==
    \/ OpenInitMagic(o)
    \/ OpenInitReserved(o)
    \/ OpenInitWatermark(o)
    \/ OpenInitSize(o)
    \/ OpenInitElement(o)
    \/ OpenInitControl(o)
    \/ OpenInitData(o)

\* `init_state->store(INIT_STATE_READY, release)`, line 647.
OpenReady(o) ==
    /\ opc[o] = "s_ready"
    /\ init_state' = INIT_STATE_READY
    /\ opc' = [opc EXCEPT ![o] = "done"]
    /\ UNCHANGED << qvars, shm_size, header_magic, element_size,
                    osize, oelement, own_, ovalid, owait, nonshm >>

\* SlickQueue(shm_name) up to the wait, lines 541-561: open_existing throws
\* unless the region exists; own_ is false from the initializer list.
AttachOpen(a) ==
    /\ opc[a] = "idle"
    /\ \E e \in ElementSizes : oelement' = [oelement EXCEPT ![a] = e]
    /\ opc' = [opc EXCEPT ![a] = IF Mapped THEN "s_wait" ELSE "no_region"]
    /\ UNCHANGED << qvars, hvars, osize, own_, ovalid, owait, nonshm >>

\* A wait that polls without counting its turns.
OpenWaitUncounted(o, max) ==
    /\ opc[o] = "s_wait"
    /\ \/ init_state = INIT_STATE_READY
       \/ /\ init_state = INIT_STATE_LEGACY
          /\ shm_size /= 0 /\ element_size /= 0
    /\ opc' = [opc EXCEPT ![o] = "s_check"]
    /\ UNCHANGED << qvars, hvars, osize, oelement, own_, ovalid, owait,
                    nonshm >>

\* One turn of the loop of wait_for_shared_memory_ready, lines 514-530, with
\* max for kMaxWaitMs; after the last turn the function returns false and the
\* constructor throws, lines 560-562 and 653-655.
OpenWaitUpTo(o, max) ==
    /\ opc[o] = "s_wait"
    /\ IF \/ init_state = INIT_STATE_READY
          \/ /\ init_state = INIT_STATE_LEGACY
             /\ owait[o] >= kLegacyGraceMs
             /\ shm_size /= 0 /\ element_size /= 0
       THEN /\ opc' = [opc EXCEPT ![o] = "s_check"]
            /\ UNCHANGED owait
       ELSE /\ owait' = [owait EXCEPT ![o] = @ + 1]
            /\ opc' = [opc EXCEPT ![o] = IF owait[o] + 1 >= max
                                          THEN "timed_out" ELSE "s_wait"]
    /\ UNCHANGED << qvars, hvars, osize, oelement, own_, ovalid, nonshm >>

\* The wait of the openers racing on a fresh region.
OpenWait(o) == OpenWaitUpTo(o, MaxWait)

\* A validation that forgets the element size.
OpenCheckCapacityOnly(o) ==
    /\ opc[o] = "s_check"
    /\ ovalid' = [ovalid EXCEPT ![o] = /\ init_state = INIT_STATE_READY
                                       /\ header_magic = HEADER_MAGIC]
    /\ IF o \in Attachers
       THEN /\ osize' = [osize EXCEPT ![o] = shm_size]
            /\ opc' = [opc EXCEPT ![o] =
                          IF ~is_power_of_two(shm_size) THEN "not_power_of_two"
                          ELSE "done"]
       ELSE /\ opc' = [opc EXCEPT ![o] =
                          IF shm_size /= osize[o] THEN "mismatch" ELSE "done"]
            /\ UNCHANGED osize
    /\ UNCHANGED << qvars, hvars, oelement, own_, owait, nonshm >>

\* After the wait, lines 564-586 for an attach-only opener and 657-679 for a
\* create-or-open: last_published_valid_ is whether the state is READY and the
\* magic is HEADER_MAGIC; then the header's capacity and element size are read
\* and checked.  The attach-only opener takes the capacity of the region and
\* throws unless it is a power of two, the create-or-open throws unless it is
\* the capacity it asked for; both throw unless the element size is sizeof(T).
OpenCheck(o) ==
    /\ opc[o] = "s_check"
    /\ ovalid' = [ovalid EXCEPT ![o] = /\ init_state = INIT_STATE_READY
                                       /\ header_magic = HEADER_MAGIC]
    /\ IF o \in Attachers
       THEN /\ osize' = [osize EXCEPT ![o] = shm_size]
            /\ opc' = [opc EXCEPT ![o] =
                          IF ~is_power_of_two(shm_size) THEN "not_power_of_two"
                          ELSE IF element_size /= oelement[o]
                               THEN "element_mismatch" ELSE "done"]
       ELSE /\ opc' = [opc EXCEPT ![o] =
                          IF shm_size /= osize[o] THEN "mismatch"
                          ELSE IF element_size /= oelement[o]
                               THEN "element_mismatch" ELSE "done"]
            /\ UNCHANGED osize
    /\ UNCHANGED << qvars, hvars, oelement, own_, owait, nonshm >>

NextShm ==
    \/ \E o \in Creators : \E size \in {2, 4} : OpenCas(o, size)
    \/ \E o \in Creators : OpenInit(o)
    \/ \E o \in Creators : OpenReady(o)
    \/ \E a \in Attachers : AttachOpen(a)
    \/ \E o \in Openers : OpenWait(o)
    \/ \E o \in Openers : OpenCheck(o)

\* Three create-or-open constructors and one attach-only constructor racing
\* on one fresh region.
SpecShm == InitShm /\ [][NextShm]_vars

\* The openers whose own_buffer() is true.
Owners == {o \in Openers : own_[o]}

\* C20: of the create-or-open constructors racing on a fresh region exactly
\* one wins the compare-exchange from UNINITIALIZED to INITIALIZING and owns
\* the region; every other one is a non-owning attacher once it has waited
\* for the owner, and it throws if the wait times out or the capacities
\* differ; an attach-only opener never owns.
C20_ExactlyOneOwner ==
    /\ Cardinality(Owners) = IF Mapped THEN 1 ELSE 0
    /\ Owners \subseteq Creators
    /\ init_state /= INIT_STATE_UNINITIALIZED <=> Mapped
    /\ \A o \in Owners : opc[o] \in {"s_magic", "s_resv", "s_water", "s_size",
                                      "s_element", "s_control", "s_data",
                                      "s_ready", "done"}
    /\ \A o \in Openers \ Owners :
          /\ opc[o] \in {"idle", "s_wait", "s_check", "done", "timed_out",
                         "mismatch", "element_mismatch", "not_power_of_two",
                         "no_region"}
          /\ opc[o] \in {"s_check", "done"} =>
                init_state = INIT_STATE_READY /\ shm_size = size_
          /\ opc[o] = "done" => osize[o] = shm_size

\* C20 witness: the three create-or-open constructors and the attach-only one
\* have all returned, one of them as owner.
C20_Witness ==
    /\ \A o \in Openers : opc[o] = "done"
    /\ Cardinality(Owners) = 1

\* The create-or-open constructor that won the region.
Owner == CHOOSE o \in Owners : TRUE

\* Everything the creator writes before READY is in place: the magic, the
\* reservation word, the watermark, the capacity, the element size and the
\* two arrays, every slot never published.
HeaderWritten ==
    /\ header_magic = HEADER_MAGIC
    /\ reserved_ = 0
    /\ last_published_ = kInvalidIndex
    /\ shm_size = osize[Owner]
    /\ element_size = oelement[Owner]
    /\ control_ = [s \in 0 .. (osize[Owner] - 1) |->
                     [data_index |-> kInvalidIndex, size |-> 1]]
    /\ DOMAIN data_ = 0 .. (osize[Owner] - 1)

\* C21: no loser of the create-or-open race and no attach-only opener gets
\* past its wait, let alone completes, unless the init state is READY; and
\* the init state is READY only after every header and array write of the
\* creator, so the capacity, element size and magic such an opener reads are
\* the creator's.
C21_ReadyAfterInit ==
    /\ init_state = INIT_STATE_READY => Owners /= {} /\ HeaderWritten
    /\ \A o \in Openers \ Owners :
          /\ opc[o] \in {"s_check", "done", "mismatch", "element_mismatch",
                         "not_power_of_two"} => init_state = INIT_STATE_READY
          /\ opc[o] = "done" =>
                /\ ovalid[o]
                /\ osize[o] = osize[Owner]
                /\ oelement[o] = oelement[Owner]

\* C21 witness: the attach-only opener and a loser of the race have both
\* completed on a region of 4 slots, each with a valid watermark.
C21_Witness ==
    /\ opc["a1"] = "done" /\ ovalid["a1"] /\ osize["a1"] = 4
    /\ \E o \in Creators \ Owners : opc[o] = "done" /\ ovalid[o]

\* ------------------------------------------- opening an initialised region

\* The capacities found in the header of an initialised region; 3 stands for
\* a header no constructor of this class wrote.
HeaderSizes == {2, 3, 4}

\* A region some creator has initialised and left READY, no opener started.
InitValidate ==
    /\ \E N \in HeaderSizes :
          /\ size_ = N
          /\ shm_size = N
          /\ control_ = [s \in 0 .. (N - 1) |->
                           [data_index |-> kInvalidIndex, size |-> 1]]
          /\ data_ = [s \in 0 .. (N - 1) |-> Unwritten]
    /\ element_size \in ElementSizes
    /\ header_magic = HEADER_MAGIC
    /\ init_state = INIT_STATE_READY
    /\ reserved_ = 0
    /\ last_published_ = kInvalidIndex
    /\ ctor = "none"
    /\ InitThreads

NextValidate ==
    \/ \E o \in Creators : \E size \in {2, 4} : OpenCas(o, size)
    \/ \E a \in Attachers : AttachOpen(a)
    \/ \E o \in Openers : OpenWait(o)
    \/ \E o \in Openers : OpenCheck(o)

\* Create-or-open and attach-only constructors on an initialised region.
SpecValidate == InitValidate /\ [][NextValidate]_vars

\* The constructor of opener o has thrown std::runtime_error after reading
\* the header.
Rejected(o) == opc[o] \in {"mismatch", "element_mismatch", "not_power_of_two"}

\* C22 (state part): an opener of an initialised region is rejected exactly
\* when the header's element size is not its own, or, for a create-or-open,
\* the header's capacity is not the one it asked for, or, for an attach-only
\* opener, the header's capacity is not a power of two; it never owns; and an
\* attach-only opener that is not rejected has the header's capacity.
C22_RejectedOrAttached ==
    \A o \in Openers :
        /\ ~own_[o]
        /\ (Rejected(o) \/ opc[o] = "done") =>
              /\ Rejected(o) <=>
                    \/ element_size /= oelement[o]
                    \/ o \in Creators /\ shm_size /= osize[o]
                    \/ o \in Attachers /\ shm_size \notin PowersOfTwo
              /\ (opc[o] = "done" /\ o \in Attachers) => osize[o] = shm_size

\* C22: opening an initialised region fails with a runtime error on an
\* element-size mismatch, on a capacity mismatch of a create-or-open and on a
\* capacity that is not a power of two of an attach-only opener, and only
\* then; the caller does not become owner, no step of any opener changes the
\* region, and an attacher's size() is the header's capacity.
C22_ValidationErrors ==
    /\ []C22_RejectedOrAttached
    /\ [][UNCHANGED << qvars, hvars >>]_vars

\* C22 witness: on a region of 4 slots of 4 bytes the attach-only opener was
\* rejected for its element size, one create-or-open for its capacity, and
\* one create-or-open has attached.
C22_Witness ==
    /\ shm_size = 4 /\ element_size = 4
    /\ opc["a1"] = "element_mismatch"
    /\ \E o \in Creators : opc[o] = "mismatch"
    /\ \E o \in Creators : opc[o] = "done"

\* ------------------------------------------------ waiting for initialisation

\* The turns of the wait loop (kMaxWaitMs in the code) where the region may
\* be a legacy one: more than kLegacyGraceMs.
MaxPolls == 7

\* A region that is fresh, or that a creator left in INITIALIZING when it
\* died, or that has the legacy init state, with a header that holds a
\* capacity and an element size or zeros.
InitWait ==
    /\ init_state \in {INIT_STATE_UNINITIALIZED, INIT_STATE_LEGACY,
                       INIT_STATE_INITIALIZING}
    /\ init_state = INIT_STATE_UNINITIALIZED => shm_size = 0 /\ element_size = 0
    /\ shm_size \in {0, 4}
    /\ element_size \in {0, 4}
    /\ header_magic = 0
    /\ size_ = shm_size
    /\ control_ = [s \in 0 .. (shm_size - 1) |->
                     [data_index |-> kInvalidIndex, size |-> 1]]
    /\ data_ = [s \in 0 .. (shm_size - 1) |-> Unwritten]
    /\ reserved_ = 0
    /\ last_published_ = kInvalidIndex
    /\ ctor = "none"
    /\ InitThreads

\* A step of opener o inside or after its wait.
Waiting(o) == OpenWaitUpTo(o, MaxPolls) \/ OpenCheck(o)

NextWait ==
    \/ \E o \in {"o1", "o2"} : OpenCas(o, 4)
    \/ \E o \in {"o1", "o2"} : OpenInit(o)
    \/ \E o \in {"o1", "o2"} : OpenReady(o)
    \/ \E a \in Attachers : AttachOpen(a)
    \/ \E o \in Openers : Waiting(o)

\* Two create-or-open constructors and an attach-only one.  An opener inside
\* its wait keeps running (each turn sleeps a millisecond and goes on); the
\* creator may stall or die at any point of its initialisation.
SpecWait ==
    /\ InitWait /\ [][NextWait]_vars
    /\ \A o \in Openers : WF_vars(Waiting(o))

\* The region can be used as it is: READY, or legacy with a capacity and an
\* element size in its header.
Usable ==
    \/ init_state = INIT_STATE_READY
    \/ /\ init_state = INIT_STATE_LEGACY
       /\ shm_size /= 0 /\ element_size /= 0

\* C23 (state part): a wait takes at most MaxPolls polls; an opener is past
\* its wait only on a usable region, on a legacy one only after the grace
\* period; and an opener whose wait ran out has thrown and owns nothing.
C23_WaitBounded ==
    \A o \in Openers :
        /\ owait[o] <= MaxPolls
        /\ opc[o] = "s_wait" => owait[o] < MaxPolls
        /\ (~own_[o] /\ (opc[o] \in {"s_check", "done"} \/ Rejected(o))) =>
              /\ Usable
              /\ init_state = INIT_STATE_LEGACY => owait[o] >= kLegacyGraceMs
        /\ opc[o] = "timed_out" => owait[o] = MaxPolls /\ ~own_[o]
        /\ ~Usable => (opc[o] = "done" => own_[o])

\* C23: the wait for initialisation always ends, after at most MaxPolls
\* polls: the opener goes on if it saw READY, or LEGACY with a capacity and an
\* element size after the grace period, and fails otherwise; while the region
\* is not usable no opener but the creator completes, so none operates on the
\* queue.
C23_WaitTerminates ==
    /\ []C23_WaitBounded
    /\ \A o \in Openers : (opc[o] = "s_wait") ~> (opc[o] /= "s_wait")

\* C23 witness: the creator stalled in INITIALIZING and the attach-only
\* opener gave up after MaxPolls polls.
C23_Witness ==
    /\ init_state = INIT_STATE_INITIALIZING
    /\ opc["a1"] = "timed_out" /\ owait["a1"] = MaxPolls

\* -------------------------------------------------------------------- reset

\* The number of reset calls of one behaviour.
MaxResets == 1

\* No thread is inside a call on the queue: the state reset() asks for ("not
\* thread-safe and should be called when no other threads are accessing the
\* queue", lines 461-464).
NoCallInProgress ==
    /\ Quiet
    /\ \A c \in Readers : cpc[c] = "idle"
    /\ \A l \in LastReaders : lpc[l] = "idle"

\* History only: the records kept of the calls on the queue begin again with
\* a reset, after which the indices start at 0 once more.
HistoryRestarts ==
    /\ calls' = 0
    /\ resv' = << >>
    /\ pubd' = {}
    /\ got' = [c \in Readers |-> << >>]
    /\ call' = [c \in Consumers |-> NoCall]
    /\ overrun' = [c \in Consumers \cup {"shared"} |-> FALSE]
    /\ ahead' = [c \in Consumers |-> FALSE]
    /\ lgot' = [l \in LastReaders |-> NoLast]
    /\ resets' = resets + 1

\* A reset that forgets the watermark.
ResetKeepsWatermark ==
    /\ NoCallInProgress
    /\ control_' = [s \in 0 .. (size_ - 1) |->
                      [data_index |-> kInvalidIndex, size |-> 1]]
    /\ reserved_' = 0
    /\ loss_count_' = 0
    /\ HistoryRestarts
    /\ UNCHANGED << size_, data_, last_published_, pvars, cvars, shared_cursor,
                    lpc, llast, perr, ctor, svars >>

\* reset(), lines 465-477: `control_ = new slot[size_]` gives size_ default
\* slots {kInvalidIndex, 1}; the reservation word becomes 0, the watermark
\* kInvalidIndex and the loss count 0.  The data cells and the callers'
\* cursors are left as they are.
Reset ==
    /\ NoCallInProgress
    /\ control_' = [s \in 0 .. (size_ - 1) |->
                      [data_index |-> kInvalidIndex, size |-> 1]]
    /\ reserved_' = 0
    /\ last_published_' = kInvalidIndex
    /\ loss_count_' = 0
    /\ HistoryRestarts
    /\ UNCHANGED << size_, data_, pvars, cvars, shared_cursor,
                    lpc, llast, perr, ctor, svars >>

\* The n of the items produced before a reset.
ResetLens == {1, 2}

InitReset == \E N \in {2, 4} : InitQueue(N)

NextReset ==
    \/ \E p \in {"p1"} : resets = 0 /\ Produce(p, ResetLens, MaxShared)
    \/ \E c \in {"c1"} : resets = 0 /\ Consume(c)
    \/ \E l \in LastReaders : ReadLast(l)
    \/ resets < MaxResets /\ Reset
    \/ \E p \in {"p1"} : resets > 0 /\ ProduceOne(p, MaxShared)
    \/ \E c \in {"c2"} : resets > 0 /\ Consume(c)

\* A producer, a consumer and a read_last caller use the queue; at any moment
\* at which no call is in progress the queue is reset; after that the producer
\* goes on, a consumer whose cursor is 0 reads, and read_last is called.
SpecReset == InitReset /\ [][NextReset]_vars

\* C24: after a reset and before the next reserve every slot holds the
\* sentinel index, the reservation word is 0, the watermark is the sentinel
\* and the loss count is 0; the first reserve after the reset returns 0; a read
\* with cursor 0 that returns before anything is published again returns
\* empty and leaves the cursor at 0; a read_last that returns before any
\* publish call has completed again returns (nullptr, 0).
C24_ResetClearsQueue ==
    /\ (resets > 0 /\ resv = << >>) =>
          /\ \A s \in 0 .. (size_ - 1) : control_[s].data_index = kInvalidIndex
          /\ reserved_ = 0
          /\ last_published_ = kInvalidIndex
          /\ loss_count_ = 0
    /\ (resets > 0 /\ resv /= << >>) => resv[1].k = 0
    /\ \A c \in {"c2"} :
          (resets > 0 /\ Returned(c) /\ call[c].start = 0 /\ pubd = {}) =>
              call[c].res = "empty" /\ read_index[c] = 0
    /\ \A l \in LastReaders :
          (resets > 0 /\ lgot[l].res /= "none" /\ lpc[l] = "idle" /\ Completed = {}) =>
              lgot[l].res = "empty"

\* C24 witness: the queue was reset after items had been published, lost and
\* read, and since then a reserve has returned, a read with cursor 0 and a
\* read_last have returned empty.
C24_Witness ==
    /\ resets > 0
    /\ \E s \in 0 .. (size_ - 1) : data_[s] /= Unwritten
    /\ read_index["c1"] > 0
    /\ resv /= << >>
    /\ pubd = {}
    /\ Returned("c2") /\ call["c2"].res = "empty"
    /\ lgot["l1"].res = "empty"

\* ------------------------------------------------------- readers never wait

\* The n of the items of SpecNonBlocking: single-slot items, and every other
\* item one of two slots, which on a queue of 2 slots leaves a wrap marker when
\* reserved at an odd index.
NonBlockingLens == IF calls % 2 = 1 THEN {1, 2} ELSE {1}

InitNonBlocking == InitQueue(2)

\* The consumers of the behaviour are those of the shared cursor: the consumer
\* with a cursor of its own has made no call.
SharedCursorOnly == Fresh("c1")

\* The consumer of the behaviour is the one with a cursor of its own: no read
\* on the shared cursor has left a trace.
OwnCursorOnly ==
    /\ \A s \in Stealers : cpc[s] = "idle" /\ got[s] = << >>
    /\ shared_cursor = 0

\* The steps of the fairly scheduled consumers.
StealFair == SharedCursorOnly /\ Steal("s2")
ConsumeFair == OwnCursorOnly /\ Consume("c1")

NextNonBlocking ==
    \/ \E p \in {"p1"} : Produce(p, NonBlockingLens, MaxShared)
    \/ \E s \in {"s1"} : SharedCursorOnly /\ Steal(s)
    \/ StealFair
    \/ ConsumeFair

\* A producer of MaxShared items next to two consumers on the shared cursor,
\* or next to one with a cursor of its own.  Stealer s2 and consumer c1 are
\* scheduled fairly; stealer s1 and the producer may stop for ever at any
\* point, in the middle of a call too.
SpecNonBlocking ==
    /\ InitNonBlocking /\ [][NextNonBlocking]_vars
    /\ WF_vars(StealFair)
    /\ WF_vars(ConsumeFair)

\* A step after which stealer s is back at the top of the loop of the read call
\* it is in.
Repeats(s) == cpc[s] /= "loop" /\ cpc'[s] = "loop"

InitLossCount == InitQueue(2)

NextLossCount ==
    \/ \E p \in Producers : ProduceOne(p, MaxResv)
    \/ \E c \in {"c1"} : Consume(c)

\* Two producers of MaxResv single-slot items in all on a queue of 2 slots,
\* and one consumer with a cursor of its own that reads while they produce
\* and may fall behind by more than the queue holds.
SpecLossCount == InitLossCount /\ [][NextLossCount]_vars

\* The sequence indices below consumer c's cursor that c was not returned.
Skipped(c) == (0 .. read_index[c] - 1) \ GotIndices(c)

\* C26: with single-slot reservations and one consumer whose cursor started
\* at 0, whenever the consumer is outside a read call the number of items it
\* was returned plus loss_count() equals its cursor, and loss_count() is the
\* number of indices below the cursor it was not returned.
C26_LossCountsSkipped ==
    cpc["c1"] = "idle" =>
        /\ Len(got["c1"]) + loss_count_ = read_index["c1"]
        /\ loss_count_ = Cardinality(Skipped("c1"))

\* C26 witness: the consumer found the slot of index 0 overwritten by the item
\* of index 2, was returned that item and counted the two it had lost.
C26_Witness ==
    /\ Returned("c1")
    /\ Len(got["c1"]) = 1
    /\ got["c1"][1].index = 2
    /\ loss_count_ = 2
    /\ read_index["c1"] = 3

\* ---------------------------------------------------------- the wrap marker

\* Producer p is inside a reserve(n) that found the reservation index k with
\* (k mod N) + n > N, has moved the reservation word and has the marker still
\* to write.
Marking(p) == ppc[p] \in {"r_msize", "r_midx"}

\* The reservation index the wrapping reserve of producer p found.
FoundIndex(p) == get_index(preserved[p])

\* The steps of producer p that store the length and the index of the marker.
StoresMarkSize(p) == ppc[p] = "r_msize" /\ ppc'[p] = "r_midx"
StoresMarkIndex(p) == ppc[p] = "r_midx" /\ ppc'[p] = "write"

\* C27, as claimed: the index stored in the abandoned slot k mod N is k, the
\* index before the advance.
C27_Original ==
    [][\A p \in Producers :
          StoresMarkIndex(p) =>
              control_'[Masked(FoundIndex(p))].data_index = FoundIndex(p)]_vars

\* C27: a reserve(n) writes a marker exactly when it found a reservation
\* index k with (k mod N) + n > N; it stores into the control record of slot
\* k mod N the length n and then the index k + (N - k mod N), the start of the
\* next lap, which is the index the call returns.
C27_MarkerHoldsAdvancedIndex ==
    /\ [](\A p \in Producers :
             Marking(p) => /\ Masked(FoundIndex(p)) + pn[p] > size_
                           /\ pindex[p] = FoundIndex(p) + (size_ - Masked(FoundIndex(p))))
    /\ [][\A p \in Producers :
             /\ StoresMarkSize(p) =>
                   control_'[Masked(FoundIndex(p))].size = pn[p]
             /\ StoresMarkIndex(p) =>
                   /\ control_'[Masked(FoundIndex(p))].data_index =
                         FoundIndex(p) + (size_ - Masked(FoundIndex(p)))
                   /\ control_'[Masked(FoundIndex(p))].data_index = pindex'[p]]_vars

\* C27 witness: a reserve(3) on a queue of 4 slots found the reservation index
\* 3, returned 4 and left the pair (3, 4) in slot 3.
C27_Witness ==
    /\ size_ = 4
    /\ \E i \in 1 .. Len(resv) : resv[i] = [k |-> 3, r |-> 4, n |-> 3]
    /\ control_[3] = [data_index |-> 4, size |-> 3]
    /\ \E p \in Producers : ppc[p] = "write" /\ pindex[p] = 4

\* ------------------------------------------------- watermark and slot indices

\* The indices a reader can load from the slots.
SlotIndices == {control_[s].data_index : s \in Slots} \ {kInvalidIndex}

\* The indices of the publish calls that have stored the index and have the
\* watermark still to raise.
Publishing == {pindex[p] : p \in {q \in Producers : ppc[q] \in {"p_load", "p_cas"}}}

\* The indices left as wrap markers by reservations whose publish call has
\* not completed.
PendingMarkers ==
    {resv[j].r : j \in {i \in 1 .. Len(resv) : resv[i].r /= resv[i].k}} \ Completed

\* C28, as claimed: the watermark, when not the sentinel, is at or above the
\* index of every slot that does not hold the sentinel.
C28_Original ==
    last_published_ /= kInvalidIndex =>
        \A i \in SlotIndices : i <= last_published_

\* C28: the watermark is at or above the index of every publish call that
\* has completed (and is not the sentinel once one has); the index of a slot
\* is above the watermark, or there while the watermark is the sentinel, only
\* for a publish call that has stored the index and not yet raised the
\* watermark, or for a wrap marker whose reservation is not published yet.
C28_WatermarkCoversCompleted ==
    /\ Completed /= {} => last_published_ /= kInvalidIndex
    /\ \A i \in Completed : i <= last_published_
    /\ \A i \in SlotIndices :
          \/ last_published_ /= kInvalidIndex /\ i <= last_published_
          \/ i \in Publishing
          \/ i \in PendingMarkers

\* C28 witness: one publish call has completed and raised the watermark to
\* its index; above it, one slot holds the index of a publish call that has
\* not raised the watermark yet and another a wrap marker.
C28_Witness ==
    /\ last_published_ /= kInvalidIndex
    /\ last_published_ \in Completed
    /\ \E i \in SlotIndices : i > last_published_ /\ i \in Publishing
    /\ \E i \in SlotIndices : i > last_published_ /\ i \in PendingMarkers \ Publishing

\* ------------------------------------------------------------ the watermark

\* The n of the items of SpecWatermark.
WatermarkLens == {1, 2}

InitWatermark == InitQueue(2)

\* The steps of a producer of SpecWatermark.
ProduceFair(p) == Produce(p, WatermarkLens, MaxShared)

NextWatermark == \E p \in Producers : ProduceFair(p)

\* Two producers of MaxShared items in all on a queue of 2 slots, fairly
\* scheduled: their publish calls overlap in every way, in and out of the
\* order of their reservations.
SpecWatermark ==
    /\ InitWatermark /\ [][NextWatermark]_vars
    /\ \A p \in Producers : WF_vars(ProduceFair(p))

\* The watermark as a number: the sentinel, which stands for no publication,
\* is below every index.
Height(mark) == IF mark = kInvalidIndex THEN -1 ELSE mark

\* C29: the watermark never decreases (the sentinel counting as below every
\* index); whenever no publish call is between its index store and the end of
\* its watermark loop, the watermark is the greatest index of the completed
\* publish calls, the sentinel if there is none; and every publish call that
\* has entered the watermark loop leaves it.
C29_WatermarkIsGreatestCompleted ==
    /\ [][Height(last_published_') >= Height(last_published_)]_vars
    /\ [](Publishing = {} =>
             last_published_ = IF Completed = {} THEN kInvalidIndex ELSE Greatest)
    /\ \A p \in Producers : (ppc[p] \in {"p_load", "p_cas"}) ~> (ppc[p] = "idle")

\* C29 witness: the publish call of index 1 completed first and raised the
\* watermark to 1; the publish call of index 0 has completed after it and has
\* left the watermark alone.
C29_Witness ==
    /\ Publishing = {}
    /\ Completed = {0, 1}
    /\ last_published_ = 1
    /\ \E p \in Producers : ppc[p] = "idle" /\ pcurrent[p] = 0
    /\ Len(resv) = 2 /\ resv[1].n = 1 /\ resv[2].n = 1

\* ------------------------------------------------- the index of a slot grows

\* C30, as claimed: once a slot holds an index that is not the sentinel, no
\* step stores a smaller index in it, be it the publish of a producer that was
\* delayed or lapped, or the wrap marker of a reserve that was delayed after
\* its exchange.
C30_Original ==
    [][\A s \in Slots :
          control_[s].data_index /= kInvalidIndex =>
              control_'[s].data_index >= control_[s].data_index]_vars

\* ------------------------------------------------------ one writer per slot

\* The slots of the reservation producer p holds.
OwnSlots(p) == {Masked(i) : i \in pindex[p] .. (pindex[p] + pn[p] - 1)}

\* The next step of producer p stores into the data cell of slot s.
WritesCell(p, s) == ppc[p] = "write" /\ s \in OwnSlots(p)

\* The next step of producer p stores into the control record of slot s: the
\* length or the index of publish, or the length or the index of a wrap marker.
WritesControl(p, s) ==
    \/ ppc[p] \in {"p_size", "p_idx"} /\ s = Masked(pindex[p])
    \/ Marking(p) /\ s = Masked(FoundIndex(p))

\* No reservation made after the one producer p holds covers slot s.
MostRecentOn(p, s) ==
    \A j \in DOMAIN resv :
        resv[j].r > pindex[p] => s \notin {Masked(i) : i \in Range(resv[j])}

\* C31, as claimed: a producer about to write the data cell or the control
\* record of a slot holds the most recent reservation that covers the slot, no
\* other producer is about to write that slot, and the control record it
\* writes is that of a slot of its own reservation.
C31_Original ==
    \A s \in Slots : \A p \in Producers :
        (WritesCell(p, s) \/ WritesControl(p, s)) =>
            /\ MostRecentOn(p, s)
            /\ \A q \in Producers \ {p} : ~(WritesCell(q, s) \/ WritesControl(q, s))
            /\ WritesControl(p, s) => s \in OwnSlots(p)

\* ------------------------------------------- the size field after reserve()

\* The most recent reservation.
LastResv == resv[Len(resv)]

\* The reserve call that made the most recent reservation has returned.
LastResvReturned ==
    \A p \in Producers :
        pindex[p] = LastResv.r => ppc[p] \notin {"r_fix", "r_msize", "r_midx"}

\* The step of a single-slot reserve that tries to restore size = 1.
RestoresSize == \E p \in Producers : ppc[p] = "r_fix" /\ ppc'[p] = "write"

\* C32: when the most recent reservation is a single-slot one whose reserve
\* call has returned, the size field of the reservation word is 1 and its
\* index field is the index after that reservation, whatever the size field
\* was before and however many single-slot reserves ran at once; the exchange
\* that restores the size never changes the index field.
C32_SingleSlotLeavesSizeOne ==
    /\ []((resv /= << >> /\ LastResv.n = 1 /\ LastResvReturned) =>
             /\ get_size(reserved_) = 1
             /\ get_index(reserved_) = LastResv.r + 1)
    /\ [][RestoresSize => get_index(reserved_') = get_index(reserved_)]_vars

\* C32 witness: on a queue of 4 slots a reserve(3) was followed by the
\* single-slot reserves of both producers: both have returned and the
\* reservation word is (5, 1).
C32_Witness ==
    /\ size_ = 4
    /\ Len(resv) = 3
    /\ resv[1].n = 3 /\ resv[2].n = 1 /\ resv[3].n = 1
    /\ LastResvReturned
    /\ preserved = [p \in Producers |-> 0]
    /\ ppc["p1"] = "write" /\ ppc["p2"] = "write"
    /\ reserved_ = make_reserved_info(5, 1)

\* ------------------------------------------------ a read that sees a reset

\* No thread is inside a call on the queue, but a producer may be between
\* its reserve and its publish, holding an index of before the reset.
NoCallButReserved ==
    /\ \A p \in Producers : ppc[p] \in {"idle", "write"}
    /\ \A c \in Readers : cpc[c] = "idle"
    /\ \A l \in LastReaders : lpc[l] = "idle"

\* reset(), lines 465-477, called while a producer holds a reservation it has
\* not published yet.
ResetWhileReserved ==
    /\ NoCallButReserved
    /\ control_' = [s \in 0 .. (size_ - 1) |->
                      [data_index |-> kInvalidIndex, size |-> 1]]
    /\ reserved_' = 0
    /\ last_published_' = kInvalidIndex
    /\ loss_count_' = 0
    /\ HistoryRestarts
    /\ UNCHANGED << size_, data_, pvars, cvars, shared_cursor,
                    lpc, llast, perr, ctor, svars >>

InitStale == InitQueue(2)

NextStale ==
    \/ \E p \in Producers : ProduceOne(p, MaxShared)
    \/ \E c \in {"c1"} : Consume(c)
    \/ resets < MaxResets /\ ResetWhileReserved

\* Two producers of single-slot items and a consumer with a cursor of its
\* own; the queue is reset between calls, possibly between a reserve and its
\* publish, so that an index of before the reset is published after it.
SpecStale == InitStale /\ [][NextStale]_vars

\* Consumer c is at the tests of read with an index in hand that is beyond the
\* reservation index: the queue has been reset.
ObservesReset(c) == cpc[c] = "chk" /\ SeesReset(cindex[c], reserved_)

\* C33, as claimed: a read that finds at its cursor an index beyond the
\* reservation index sets the cursor to 0 and starts again at the top of its
\* loop, with slot 0; it adds nothing to the loss count and goes on to no
\* return that uses the index, the slot or the length it had loaded.
C33_Original ==
    [][\A c \in {"c1"} :
          (ObservesReset(c) /\ cpc'[c] /= "chk") =>
              /\ read_index'[c] = 0
              /\ cpc'[c] = "loop"
              /\ loss_count_' = loss_count_]_vars

\* ----------------------------------------------- a cursor that was overrun

\* The n of the items of SpecAhead.
AheadLens == {1, 2}

InitAhead == InitQueue(2)

NextAhead ==
    \/ \E p \in Producers : Produce(p, AheadLens, MaxResv)
    \/ \E c \in {"c1"} : Consume(c)

\* Two producers of MaxResv one- and two-slot items in all on a queue of 2
\* slots, and a consumer with a cursor of its own that reads while they
\* produce.
SpecAhead == InitAhead /\ [][NextAhead]_vars

\* Every reservation made so far has been published and no call is running.
AllPublished ==
    /\ Quiet
    /\ \A j \in DOMAIN resv : resv[j].r \in pubd

\* C34, as claimed: whenever the reservation index is at least N ahead of the
\* cursor of a consumer between two calls and every reservation made so far
\* has been published, the slot at cursor mod N holds an index greater than
\* the cursor.
C34_Original ==
    \A c \in {"c1"} :
        (/\ cpc[c] = "idle"
         /\ AllPublished
         /\ get_index(reserved_) - read_index[c] >= size_) =>
            /\ control_[Masked(read_index[c])].data_index /= kInvalidIndex
            /\ control_[Masked(read_index[c])].data_index > read_index[c]

\* ------------------------------------------- the two overloads of read agree

\* The greatest value a caller starts its cursor with.
MaxCursor == 5

\* The n of the items of SpecSameRead.
SameReadLens == {1, 2}

\* `uint64_t cursor = c` and `std::atomic<uint64_t> cursor{c}`: the callers
\* start both cursors with the same value, before anything else happens.
StartCursors(c) ==
    /\ resv = << >> /\ Quiet
    /\ \A r \in Readers : cpc[r] = "idle"
    /\ Fresh("c1")
    /\ read_index["c1"] = 0 /\ shared_cursor = 0
    /\ read_index' = [read_index EXCEPT !["c1"] = c]
    /\ shared_cursor' = c
    /\ UNCHANGED << qvars, loss_count_, pvars, ovars, cpc, cindex, ccell, cdata,
                    ccurrent, cnext, coverrun, calls, resv, pubd, got, call,
                    overrun, ahead >>

\* The one call of read(uint64_t&): the producers have stopped where they are.
PlainCall == ~Returned("c1") /\ Consume("c1")

\* A call of read(std::atomic<uint64_t>&) on the same state of the queue and
\* the same cursor value as the call of read(uint64_t&), after that call.
AtomicCall ==
    /\ Returned("c1")
    /\ cpc["s1"] = "idle" => (shared_cursor = call["c1"].start /\ got["s1"] = << >>)
    /\ Steal("s1")

InitSameRead == InitQueue(2)

NextSameRead ==
    \/ \E c \in 1 .. MaxCursor : StartCursors(c)
    \/ \E p \in Producers : Fresh("c1") /\ Produce(p, SameReadLens, MaxShared)
    \/ PlainCall
    \/ AtomicCall

\* Two producers reach a state of the queue, at rest or in the middle of their
\* calls, and stop; then read is called once with a plain cursor and once with
\* an atomic cursor, both holding the same value.
SpecSameRead == InitSameRead /\ [][NextSameRead]_vars

\* The step with which the call of read(std::atomic<uint64_t>&) returns.
AtomicReturns == cpc["s1"] /= "idle" /\ cpc'["s1"] = "idle"

\* The step with which that call claims an item and accounts its loss.
AtomicClaims == cpc["s1"] = "a_cas" /\ cpc'["s1"] = "a_ret"

\* C35: on the same state of the queue and the same cursor value, with no
\* producer and no other consumer running, read with an atomic cursor returns
\* what read with a plain cursor returned (the same index, cell, value and
\* length, or empty), leaves its cursor at the same value and adds the same
\* amount to loss_count.
C35_OverloadsAgree ==
    [][/\ AtomicReturns =>
             /\ got'["s1"] = got["c1"]
             /\ (got'["s1"] = << >>) = (call["c1"].res = "empty")
             /\ shared_cursor' = read_index["c1"]
             /\ got'["s1"] = << >> => loss_count_' = call["c1"].loss
       /\ AtomicClaims =>
             loss_count_' - loss_count_ = loss_count_ - call["c1"].loss]_vars

\* C35 witness: both calls began with cursor 0 and found the item of index 2
\* in slot 0; both returned it and each added 2 to loss_count.
C35_Witness ==
    /\ call["c1"].start = 0 /\ Returned("c1") /\ call["c1"].loss = 0
    /\ Len(got["c1"]) = 1 /\ got["c1"][1].index = 2
    /\ cpc["s1"] = "idle" /\ got["s1"] = got["c1"]
    /\ shared_cursor = read_index["c1"]
    /\ loss_count_ = 4

\* ------------------------------------------- the reserved-info codec, 64 bits

\* A uint64_t is four digits of 16 bits and a uint32_t two, the least
\* significant first.

\* 0xFFFF, lines 482 and 490.
LimbMax == 65535

\* How far from 0 and from 0xFFFF the digits of the arguments range.
MaxLow == 1

Limbs == (0 .. MaxLow) \cup ((LimbMax - MaxLow) .. LimbMax)

\* The values of k digits.
Words(k) == [1 .. k -> Limbs]

\* `a & b` of two uint64_t, or of two uint32_t.
And64(a, b) == [i \in DOMAIN a |-> BitAnd(a[i], b[i])]

\* `a | b` of two uint64_t.
Or64(a, b) == [i \in DOMAIN a |-> a[i] + b[i] - BitAnd(a[i], b[i])]

\* `a << 16` of a uint64_t: the most significant 16 bits are lost.
Shl16(a) == [i \in 1 .. 4 |-> IF i = 1 THEN 0 ELSE a[i - 1]]

\* `a >> 16` of a uint64_t.
Shr16(a) == [i \in 1 .. 4 |-> IF i = 4 THEN 0 ELSE a[i + 1]]

\* The conversion of a uint32_t to uint64_t in `x | (size & 0xFFFF)`.
Widen(s) == [i \in 1 .. 4 |-> IF i <= 2 THEN s[i] ELSE 0]

\* `static_cast<uint32_t>` of a uint64_t.
Narrow(a) == [i \in 1 .. 2 |-> a[i]]

\* The carry out of digit i of a + b.
RECURSIVE Carry(_, _, _)
Carry(a, b, i) ==
    IF i = 0 THEN 0 ELSE (a[i] + b[i] + Carry(a, b, i - 1)) \div SizeField

\* `a + b` of two uint64_t, modulo 2^64.
Add64(a, b) == [i \in 1 .. 4 |-> (a[i] + b[i] + Carry(a, b, i - 1)) % SizeField]

\* 0xFFFFFFFFFFFFULL, line 482.
IndexMask == << LimbMax, LimbMax, LimbMax, 0 >>

\* `constexpr reserved_info step = (1ULL << 16)`, line 259.
step == << 0, 1, 0, 0 >>

\* A make_reserved_info that lacks `& 0xFFFF`.
make_reserved_info64_whole_size(index, size) ==
    Or64(Shl16(And64(index, IndexMask)), Widen(size))

\* make_reserved_info, lines 481-483.
make_reserved_info64(index, size) ==
    Or64(Shl16(And64(index, IndexMask)), Widen(And64(size, << LimbMax, 0 >>)))

\* get_index, lines 485-487.
get_index64(reserved) == Shr16(reserved)

\* get_size, lines 489-491.
get_size64(reserved) == Narrow(And64(reserved, << LimbMax, 0, 0, 0 >>))

\* A caller holds an index and a size to pack; the word is 0 as after
\* construction.
InitCodec ==
    \E index \in Words(4), size \in Words(2) :
        /\ pindex = [p \in Producers |-> IF p = "p1" THEN index ELSE 0]
        /\ pn = [p \in Producers |-> IF p = "p1" THEN size ELSE 0]
        /\ size_ = 2
        /\ reserved_ = << 0, 0, 0, 0 >>
        /\ control_ = [s \in 0 .. 1 |-> [data_index |-> kInvalidIndex, size |-> 1]]
        /\ data_ = [s \in 0 .. 1 |-> Unwritten]
        /\ last_published_ = kInvalidIndex
        /\ ctor = "ok"
        /\ ZeroHeader
        /\ InitCallers

\* `next = make_reserved_info(index + n, n)` stored by the CAS of line 287,
\* for the index and the size the caller holds.
CodecStore ==
    /\ ppc["p1"] = "idle"
    /\ reserved_' = make_reserved_info64(pindex["p1"], pn["p1"])
    /\ ppc' = [ppc EXCEPT !["p1"] = "r_cas"]
    /\ UNCHANGED << size_, control_, data_, last_published_, loss_count_, pn,
                    preserved, pindex, pwrapped, pcurrent, cvars, ovars,
                    shared_cursor, calls, resv, pubd, got, call, overrun, ahead >>

\* `prev = reserved_->fetch_add(step)`, line 260.
CodecFetchAdd ==
    /\ ppc["p1"] = "r_cas"
    /\ preserved' = [preserved EXCEPT !["p1"] = reserved_]
    /\ reserved_' = Add64(reserved_, step)
    /\ ppc' = [ppc EXCEPT !["p1"] = "r_fix"]
    /\ UNCHANGED << size_, control_, data_, last_published_, loss_count_, pn,
                    pindex, pwrapped, pcurrent, cvars, ovars,
                    shared_cursor, calls, resv, pubd, got, call, overrun, ahead >>

NextCodec == CodecStore \/ CodecFetchAdd

\* A word packed from any index and size, then advanced by one single-slot
\* reservation.
SpecCodec == InitCodec /\ [][NextCodec]_vars

\* index mod 2^48.
Mod48(index) == [i \in 1 .. 4 |-> IF i = 4 THEN 0 ELSE index[i]]

\* size mod 2^16.
Mod16(size) == [i \in 1 .. 2 |-> IF i = 2 THEN 0 ELSE size[i]]

\* index + 1, for an index below 2^48 - 1.
RECURSIVE Succ48(_, _)
Succ48(index, i) ==
    IF index[i] < LimbMax
    THEN [index EXCEPT ![i] = index[i] + 1]
    ELSE Succ48([index EXCEPT ![i] = 0], i + 1)

\* C36: the word packed from an index and a size unpacks to (index mod 2^48,
\* size mod 2^16): to the index and the size themselves when index < 2^48 and
\* size < 2^16, and to a size other than n when n > 65535.  Adding 1 << 16 to
\* a word whose index is below 2^48 - 1 adds 1 to its index and leaves its
\* size.
C36_CodecRoundTrips ==
    /\ ppc["p1"] = "r_cas" =>
         /\ get_index64(reserved_) = Mod48(pindex["p1"])
         /\ get_size64(reserved_) = Mod16(pn["p1"])
         /\ pindex["p1"][4] = 0 => get_index64(reserved_) = pindex["p1"]
         /\ pn["p1"][2] = 0 => get_size64(reserved_) = pn["p1"]
         /\ pn["p1"][2] /= 0 => get_size64(reserved_) /= pn["p1"]
    /\ ppc["p1"] = "r_fix" /\ get_index64(preserved["p1"]) /= IndexMask =>
         /\ get_index64(reserved_) = Succ48(get_index64(preserved["p1"]), 1)
         /\ get_size64(reserved_) = get_size64(preserved["p1"])

\* C36 witness: index 2^48 + 65535 and size 65537 pack to index 65535 and
\* size 1, and one fetch_add carries the index to 65536.
C36_Witness ==
    /\ ppc["p1"] = "r_fix"
    /\ pindex["p1"] = << LimbMax, 0, 0, 1 >>
    /\ pn["p1"] = << 1, 1 >>
    /\ preserved["p1"] = << 1, LimbMax, 0, 0 >>
    /\ reserved_ = << 1, 0, 1, 0 >>

\* --------------------------------------------------- what a slot may hold

\* v at slot s is the index of an item, stored by publish (line 329).
IsPublication(s, v) ==
    /\ v % size_ = s
    /\ v \in pubd
    /\ \E i \in 1 .. Len(resv) : resv[i].r = v

\* v at slot s is a wrap-skip marker, stored by reserve (line 297).
IsMarker(s, v) ==
    /\ s /= 0
    /\ v % size_ = 0
    /\ \E i \in 1 .. Len(resv) :
           resv[i].k /= resv[i].r /\ resv[i].k % size_ = s /\ resv[i].r = v

\* C37: every slot s holds the sentinel, or the index of a reserved item
\* congruent to s modulo size_, or, when s is not 0, a wrap-skip marker that is
\* a multiple of size_; no reservation wraps from slot 0, so slot 0 never
\* holds a marker.
C37_SlotContents ==
    /\ \A s \in Slots :
         \/ control_[s].data_index = kInvalidIndex
         \/ IsPublication(s, control_[s].data_index)
         \/ IsMarker(s, control_[s].data_index)
    /\ \A i \in 1 .. Len(resv) : resv[i].k /= resv[i].r => resv[i].k % size_ /= 0

\* C37 witness: in a queue of 4 slots, slot 3 holds the marker 4 and slot 0
\* the published index 4.
C37_Witness ==
    /\ size_ = 4
    /\ control_[3].data_index = 4 /\ IsMarker(3, 4)
    /\ control_[0].data_index = 4 /\ IsPublication(0, 4)

\* --------------------------------------- the reset branch, without a reset

\* A reader holds an index it loaded from a slot and is at the tests of read.
AtTests(c) == cpc[c] = IF c \in Stealers THEN "a_chk" ELSE "chk"

\* C38: without reset, every index stored in a slot, by publish or as a
\* wrap-skip marker, is below the index of the reservation word; so no reader,
\* whenever it loaded its index, finds it beyond the reservation index, and
\* no reader is in the branch for a queue that has been reset.
C38_StoredBelowReserved ==
    /\ \A s \in Slots :
           control_[s].data_index /= kInvalidIndex =>
               control_[s].data_index < get_index(reserved_)
    /\ \A c \in {"c1", "s1"} : AtTests(c) => ~SeesReset(cindex[c], reserved_)
    /\ \A c \in Stealers : cpc[c] /= "a_rst"

\* C38 witness: slot 3 holds the marker 4 and the reservation index is 7,
\* while a reader is at its tests with that marker in hand.
C38_Witness ==
    /\ control_[3].data_index = 4 /\ get_index(reserved_) = 7
    /\ \E c \in {"c1", "s1"} : AtTests(c) /\ cindex[c] = 4 /\ ccell[c] = 3

\* ------------------------------------------ one wrap-skip jump per read call

\* The n of the items of SpecJump.
JumpLens == {1, 2}

InitJump == InitQueue(2)

ConsumeJump == Consume("c1")

NextJump ==
    \/ \E p \in {"p1"} : Produce(p, JumpLens, MaxResv)
    \/ ConsumeJump

\* A producer of items of 1 and 2 slots next to a consumer with a cursor of
\* its own that is scheduled fairly; the producer may stop anywhere, and may
\* overwrite what the consumer has not read.
SpecJump ==
    /\ InitJump
    /\ [][NextJump]_vars
    /\ WF_vars(ConsumeJump)

\* The step of `read_index = index; continue;`, lines 368-369.
Jumps(c) == cpc[c] = "chk" /\ cpc'[c] = "loop"

\* C39: without reset, a read with a cursor of its own jumps over a wrap marker
\* only from the cursor its call began with, so at most once in a call; the
\* jump takes the cursor forward to a multiple of size_, and the call returns.
C39_OneJumpPerCall ==
    /\ [][Jumps("c1") =>
            /\ read_index["c1"] = call["c1"].start
            /\ read_index'["c1"] > read_index["c1"]
            /\ read_index'["c1"] % size_ = 0]_vars
    /\ (cpc["c1"] /= "idle") ~> (cpc["c1"] = "idle")

\* C39 witness: a call that began with cursor 1 jumped to 2, found in slot 0
\* an index other than 2, and has returned an item with its cursor at 2 or
\* beyond.
C39_Witness ==
    /\ Returned("c1") /\ call["c1"].start = 1 /\ call["c1"].res = "item"
    /\ read_index["c1"] > 2
    /\ got["c1"][Len(got["c1"])].index = 4

\* ------------------------------------- the index and the length of one read

\* The n of the reservation that reserve returned index p for.
LengthOf(p) == ResvAt(p).n

\* C40, as claimed: every item a read returned has an index p that reserve
\* returned and the length n that was given to publish(p, n), and the call
\* that returned it left the cursor at p + n, whatever the producer stored in
\* the slot between the load of the index and the loads of the length.
C40_Original ==
    \A c \in {"c1"} :
        /\ \A j \in 1 .. Len(got[c]) :
               /\ \E i \in 1 .. Len(resv) : resv[i].r = got[c][j].index
               /\ got[c][j].len = LengthOf(got[c][j].index)
        /\ (Returned(c) /\ call[c].res = "item") =>
               read_index[c] = got[c][Len(got[c])].index
                                 + LengthOf(got[c][Len(got[c])].index)

====
